---- MODULE Spec2Model ----
(***************************************************************************)
(* Model of the H2GIS GDAL driver's worker-thread bridge                   *)
(* (h2gis_wrapper.cpp): caller threads, the worker thread(s) spawned by    *)
(* h2gis_wrapper_init, the task queue and the init / shutdown globals.     *)
(* Every atomic step of the model is one stretch of code between two       *)
(* points at which another thread can observe or change the shared state.  *)
(***************************************************************************)
EXTENDS Integers, Sequences, FiniteSets, TLC

\* ---- bounds of the model ------------------------------------------------
NumCallers == 3      \* caller threads
MaxOps     == 3      \* API calls started over a run
MaxWorkers == 2      \* worker threads pthread_create can still deliver
MaxTasks   == 3      \* tasks pushed to g_task_queue over a run
PollLimit  == 2      \* polls of the init loop (the source polls 100 times)
MaxThrows  == 1      \* tasks whose engine call throws over a run
MaxRows    == 3      \* rows of the table a layer reads
MaxBatch   == 2      \* largest batch the engine serves
MaxLayerOps == 6     \* method calls made on a layer over a run
MaxFaults  == 1      \* prepare / execute calls that fail over a run
CodecRows  == 3      \* rows of a batch handed to the row decode
MaxPayload == 2      \* bytes of a geometry after its shape type
MaxRead    == 64     \* bytes a length read from a buffer is followed for
MaxParsed  == 3      \* columns a column count read from a buffer is followed for
MaxLookups == 2      \* GetFeature calls made on a layer over a run
MaxTables == 2       \* tables the metadata query of Open lists

Callers == 1 .. NumCallers
Workers == 1 .. MaxWorkers

\* OS thread identity of a caller thread and of a spawned worker thread
CallerTid(c) == c
WorkerTid(w) == NumCallers + w

VARIABLES
    g_initialized,          \* std::atomic<bool> g_initialized
    g_shutdown,             \* std::atomic<bool> g_shutdown
    g_h2gis_handle,         \* TRUE iff g_h2gis_handle != nullptr
    fp_h2gis,               \* TRUE iff the required fp_h2gis_* pointers are non-null
    g_worker_thread_handle, \* worker last stored by pthread_create (0: none yet)
    g_task_queue,           \* std::queue of tasks (task ids, front first)
    g_refcount,             \* std::atomic<int> g_refcount
    g_init_mutex,           \* caller holding g_init_mutex (0: free)
    wait_count,             \* wait_count of the init call holding the mutex
    pc,                     \* caller -> position in the API call it is running
    op,                     \* caller -> API call it is running
    jtarget,                \* caller -> thread handle it passed to pthread_join
    mytask,                 \* caller -> task pushed by its execute_on_worker
    wpc,                    \* worker -> position in worker_thread_func
    wtask,                  \* worker -> task popped and being run (0: none)
    joiner,                 \* worker -> first caller that called pthread_join on it
    h,                      \* history of the run (read by no step of the code)
    layer,                  \* the members of a layer object
    engine,                 \* the statements, result sets and buffers of the engine
    lh,                     \* history of the layer's run
    batch,                  \* a result buffer handed to the row decode
    dec,                    \* the row decode's read pointers and output
    ds                      \* the members of a data source, and its Open call

globals == <<g_initialized, g_shutdown, g_h2gis_handle, fp_h2gis,
             g_worker_thread_handle, g_task_queue, g_refcount, g_init_mutex,
             wait_count>>
locals  == <<pc, op, jtarget, mytask>>
wvars   == <<wpc, wtask, joiner>>
bridgeVars == <<globals, locals, wvars, h>>
lvars   == <<layer, engine, lh>>
cvars   == <<batch, dec>>
vars    == <<bridgeVars, lvars, cvars, ds>>

\* a step of the bridge touches no layer and no buffer
Apart == UNCHANGED <<lvars, cvars, ds>>

\* no buffer is being decoded
CodecIdle == batch = <<>> /\ dec = <<>>

\* no data source is being opened
DataSourceIdle == ds = <<>>

\* The history record:
\*   nSpawned   worker threads created so far
\*   nextTask   next task id (ids are handed out in push order)
\*   execLog    sequence of [task, tid]: the engine calls, in order of execution
\*   fulfilled  tasks whose promise has been set (value or exception)
\*   raised     tasks whose promise holds an exception (promise.set_exception)
\*   reraised   [task, tid]: future.get() calls that rethrew, and on which thread
\*   owner      task id -> caller whose execute_on_worker pushed it
\*   libRefs    dlopen reference count of the native library
\*   libFrees   h2gis_free_library calls made by h2gis_wrapper_shutdown
\*   isolates   successful graal_create_isolate calls
\*   joinCalls  worker -> pthread_join calls made on it
\*   sdRuns     worker -> shutdown sequences (join, free) run against it
\*   opsStarted API calls started
\*   initRet    caller -> how its last h2gis_wrapper_init returned
\*   initWorker caller -> worker spawned by its last h2gis_wrapper_init
\*   initFailed some h2gis_wrapper_init has given up and returned -1
\*   failedLast the h2gis_wrapper_init that returned last returned -1
\*   afterFail  caller -> its running init call was made after such a failure
\*   afterTerm  caller -> its last init call was made after a shutdown completed
\*   terminated some h2gis_wrapper_shutdown has run to its end
\*   sdSnap     caller -> number of tasks pushed when it requested shutdown
\*   sdDone     caller -> sdSnap of its last completed shutdown (-1: none)
BridgeInit ==
    /\ g_initialized = FALSE
    /\ g_shutdown = FALSE
    /\ g_h2gis_handle = FALSE
    /\ fp_h2gis = FALSE
    /\ g_worker_thread_handle = 0
    /\ g_task_queue = <<>>
    /\ g_refcount = 0
    /\ g_init_mutex = 0
    /\ wait_count = 0
    /\ pc = [c \in Callers |-> "idle"]
    /\ op = [c \in Callers |-> "none"]
    /\ jtarget = [c \in Callers |-> 0]
    /\ mytask = [c \in Callers |-> 0]
    /\ wpc = [w \in Workers |-> "unborn"]
    /\ wtask = [w \in Workers |-> 0]
    /\ joiner = [w \in Workers |-> 0]
    /\ h = [ nSpawned   |-> 0,
             nextTask   |-> 1,
             execLog    |-> <<>>,
             fulfilled  |-> {},
             raised     |-> {},
             reraised   |-> {},
             owner      |-> <<>>,
             libRefs    |-> 0,
             libFrees   |-> 0,
             isolates   |-> 0,
             joinCalls  |-> [w \in Workers |-> 0],
             sdRuns     |-> [w \in Workers |-> 0],
             opsStarted |-> 0,
             initRet    |-> [c \in Callers |-> "none"],
             initWorker |-> [c \in Callers |-> 0],
             initFailed |-> FALSE,
             failedLast |-> FALSE,
             afterFail  |-> [c \in Callers |-> FALSE],
             afterTerm  |-> [c \in Callers |-> FALSE],
             terminated |-> FALSE,
             sdSnap     |-> [c \in Callers |-> 0],
             sdDone     |-> [c \in Callers |-> -1] ]

\* ---- helpers --------------------------------------------------------------

\* A caller may start a new API call.
CanStart(c) == pc[c] = "idle" /\ h.opsStarted < MaxOps

\* g_queue_cv.notify_one / notify_all: a worker blocked in the wait is made
\* runnable again and re-evaluates the predicate (at most one worker is ever
\* blocked there, see OneLoopWorker).
Notify(wp) == [w \in Workers |-> IF wp[w] = "sleeping" THEN "wait" ELSE wp[w]]

\* h2gis_free_library on a non-null handle: dlclose drops one reference.
DlClose(n) == IF n > 0 THEN n - 1 ELSE 0

\* a variant of QueueFront that takes the task pushed last
QueueBack(q) == q[Len(q)]

\* a variant of QueueRest that leaves the front task in the queue
QueueKeep(q) == q

\* the task std::queue::front() / pop() hand to the worker, and what is left
QueueFront(q) == Head(q)
QueueRest(q) == Tail(q)

\* ---- h2gis_wrapper_init ----------------------------------------------------

\* the two returns of -1: thread creation failed; the worker did not reach
\* Ready within the polling window
FailKinds == {"fail_create", "fail_timeout"}

\* history after h2gis_wrapper_init returned to caller c by path `kind`
HInitRet(hh, c, kind) ==
    [hh EXCEPT !.initRet[c] = kind,
               !.initFailed = @ \/ (kind = "fail_timeout"),
               !.failedLast = (kind \in FailKinds)]

\* where caller c goes when h2gis_wrapper_init returns: back to its own code,
\* or, inside wrap_h2gis_connect, on to the test of fp_h2gis_connect and
\* execute_on_worker (a failed init makes wrap_h2gis_connect return -1).
AfterInit(c, theop, kind) ==
    IF theop = "connect" /\ kind \notin FailKinds /\ fp_h2gis
    THEN "wrap_push" ELSE "idle"

\* the unlocked test of g_initialized that opens h2gis_wrapper_init, for a
\* call made directly (theop = "init") or by wrap_h2gis_connect
InitFirstCheck(c, theop) ==
    /\ Apart
    /\ CanStart(c)
    /\ op' = [op EXCEPT ![c] = theop]
    /\ IF g_initialized
       THEN /\ pc' = [pc EXCEPT ![c] = AfterInit(c, theop, "ok_ready")]
            /\ h' = [HInitRet(h, c, "ok_ready") EXCEPT
                              !.opsStarted = @ + 1,
                              !.afterTerm[c] = h.terminated]
       ELSE /\ pc' = [pc EXCEPT ![c] = "init_lock"]
            /\ h' = [h EXCEPT !.opsStarted = @ + 1,
                              !.initRet[c] = "pending",
                              !.afterFail[c] = h.initFailed,
                              !.afterTerm[c] = h.terminated]
    /\ UNCHANGED <<globals, jtarget, mytask, wvars>>

CallInit(c) == InitFirstCheck(c, "init")

\* a variant of InitLock that does not test g_initialized again under the mutex
InitLockNoRecheck(c) ==
    /\ Apart
    /\ pc[c] = "init_lock"
    /\ g_init_mutex = 0
    /\ \E created \in BOOLEAN :
         /\ created => h.nSpawned < MaxWorkers
         /\ IF created
            THEN /\ g_worker_thread_handle' = h.nSpawned + 1
                 /\ wpc' = [wpc EXCEPT ![h.nSpawned + 1] = "load"]
                 /\ g_init_mutex' = c
                 /\ wait_count' = 0
                 /\ pc' = [pc EXCEPT ![c] = "init_poll"]
                 /\ h' = [h EXCEPT !.nSpawned = @ + 1,
                                   !.initWorker[c] = h.nSpawned + 1]
            ELSE /\ pc' = [pc EXCEPT ![c] = "idle"]
                 /\ h' = HInitRet(h, c, "fail_create")
                 /\ UNCHANGED <<g_worker_thread_handle, wpc, g_init_mutex,
                                wait_count>>
    /\ UNCHANGED <<g_initialized, g_shutdown, g_h2gis_handle, fp_h2gis,
                   g_task_queue, g_refcount, op, jtarget, mytask, wtask, joiner>>

\* lock_guard on g_init_mutex, the second test of g_initialized and
\* h2gis_create_thread_with_stack (which may fail)
InitLock(c) ==
    /\ Apart
    /\ pc[c] = "init_lock"
    /\ g_init_mutex = 0
    /\ IF g_initialized
       THEN /\ pc' = [pc EXCEPT ![c] = AfterInit(c, op[c], "ok_ready")]
            /\ h' = HInitRet(h, c, "ok_ready")
            /\ UNCHANGED <<g_worker_thread_handle, wpc, g_init_mutex, wait_count>>
       ELSE \E created \in BOOLEAN :
            /\ created => h.nSpawned < MaxWorkers
            /\ IF created
               THEN /\ g_worker_thread_handle' = h.nSpawned + 1
                    /\ wpc' = [wpc EXCEPT ![h.nSpawned + 1] = "load"]
                    /\ g_init_mutex' = c
                    /\ wait_count' = 0
                    /\ pc' = [pc EXCEPT ![c] = "init_poll"]
                    /\ h' = [h EXCEPT !.nSpawned = @ + 1,
                                      !.initWorker[c] = h.nSpawned + 1]
               ELSE /\ pc' = [pc EXCEPT ![c] = "idle"]
                    /\ h' = HInitRet(h, c, "fail_create")
                    /\ UNCHANGED <<g_worker_thread_handle, wpc, g_init_mutex,
                                   wait_count>>
    /\ UNCHANGED <<g_initialized, g_shutdown, g_h2gis_handle, fp_h2gis,
                   g_task_queue, g_refcount, op, jtarget, mytask, wtask, joiner>>

\* one evaluation of the polling loop's condition: sleep and count, or leave
InitPoll(c) ==
    /\ Apart
    /\ pc[c] = "init_poll"
    /\ IF ~g_initialized /\ wait_count < PollLimit
       THEN /\ wait_count' = wait_count + 1
            /\ UNCHANGED pc
       ELSE /\ pc' = [pc EXCEPT ![c] = "init_after"]
            /\ UNCHANGED wait_count
    /\ UNCHANGED <<g_initialized, g_shutdown, g_h2gis_handle, fp_h2gis,
                   g_worker_thread_handle, g_task_queue, g_refcount,
                   g_init_mutex, op, jtarget, mytask, wvars, h>>

\* a variant of InitAfter that gives up without stopping and joining the worker
InitAfterNoJoin(c) ==
    /\ Apart
    /\ pc[c] = "init_after"
    /\ g_init_mutex' = 0
    /\ IF ~g_initialized
       THEN /\ pc' = [pc EXCEPT ![c] = "idle"]
            /\ h' = HInitRet(h, c, "fail_timeout")
       ELSE /\ pc' = [pc EXCEPT ![c] = AfterInit(c, op[c], "ok")]
            /\ h' = HInitRet(h, c, "ok")
    /\ UNCHANGED <<g_initialized, g_shutdown, g_h2gis_handle, fp_h2gis,
                   g_worker_thread_handle, g_task_queue, g_refcount,
                   wait_count, op, jtarget, mytask, wvars>>

\* the test after the loop: success, or the give-up path up to the join call
\* (g_shutdown.store(true); g_queue_cv.notify_all())
InitAfter(c) ==
    /\ Apart
    /\ pc[c] = "init_after"
    /\ IF ~g_initialized
       THEN /\ g_shutdown' = TRUE
            /\ wpc' = Notify(wpc)
            /\ pc' = [pc EXCEPT ![c] = "init_join_call"]
            /\ UNCHANGED <<g_init_mutex, h>>
       ELSE /\ g_init_mutex' = 0
            /\ pc' = [pc EXCEPT ![c] = AfterInit(c, op[c], "ok")]
            /\ h' = HInitRet(h, c, "ok")
            /\ UNCHANGED <<g_shutdown, wpc>>
    /\ UNCHANGED <<g_initialized, g_h2gis_handle, fp_h2gis,
                   g_worker_thread_handle, g_task_queue, g_refcount,
                   wait_count, op, jtarget, mytask, wtask, joiner>>

\* ---- h2gis_join_thread ----------------------------------------------------
\* pthread_join(g_worker_thread_handle): the first join of a thread blocks
\* until the thread has ended.  A join of a thread that another caller has
\* joined or is joining is undefined: it returns at once (glibc: EINVAL,
\* ESRCH) or blocks like the first.
JoinCall(c, from, waiting, done) ==
    /\ Apart
    /\ pc[c] = from
    /\ g_worker_thread_handle \in Workers
    /\ LET t == g_worker_thread_handle IN
       /\ jtarget' = [jtarget EXCEPT ![c] = t]
       /\ h' = [h EXCEPT !.joinCalls[t] = @ + 1,
                         !.sdRuns[t] = IF from = "sd_join_call" THEN @ + 1 ELSE @]
       /\ IF joiner[t] = 0
          THEN /\ joiner' = [joiner EXCEPT ![t] = c]
               /\ pc' = [pc EXCEPT ![c] = waiting]
          ELSE /\ UNCHANGED joiner
               /\ \E atOnce \in BOOLEAN :
                    pc' = [pc EXCEPT ![c] = IF atOnce THEN done ELSE waiting]
    /\ UNCHANGED <<globals, op, mytask, wpc, wtask>>

JoinWait(c, waiting, done) ==
    /\ Apart
    /\ pc[c] = waiting
    /\ wpc[jtarget[c]] = "exited"
    /\ pc' = [pc EXCEPT ![c] = done]
    /\ UNCHANGED <<globals, op, jtarget, mytask, wvars, h>>

InitJoinCall(c) == JoinCall(c, "init_join_call", "init_join_wait", "init_fail")
InitJoinWait(c) == JoinWait(c, "init_join_wait", "init_fail")

\* return -1 of the give-up path (the lock_guard releases g_init_mutex)
InitFail(c) ==
    /\ Apart
    /\ pc[c] = "init_fail"
    /\ g_init_mutex' = 0
    /\ pc' = [pc EXCEPT ![c] = "idle"]
    /\ h' = HInitRet(h, c, "fail_timeout")
    /\ UNCHANGED <<g_initialized, g_shutdown, g_h2gis_handle, fp_h2gis,
                   g_worker_thread_handle, g_task_queue, g_refcount,
                   wait_count, op, jtarget, mytask, wvars>>

\* ---- h2gis_wrapper_shutdown ------------------------------------------------

\* the test of g_initialized, then g_shutdown.store(true) and notify_all();
\* entered by a direct call or from h2gis_wrapper_release ("sd_entry")
ShutdownFirst(c, hh) ==
    /\ Apart
    /\ UNCHANGED <<g_initialized, g_h2gis_handle, fp_h2gis,
                   g_worker_thread_handle, g_task_queue, g_init_mutex,
                   wait_count, jtarget, mytask, wtask, joiner>>
    /\ IF ~g_initialized
       THEN /\ pc' = [pc EXCEPT ![c] = "idle"]
            /\ h' = hh
            /\ UNCHANGED <<g_shutdown, wpc>>
       ELSE /\ g_shutdown' = TRUE
            /\ wpc' = Notify(wpc)
            /\ pc' = [pc EXCEPT ![c] = "sd_join_call"]
            /\ h' = [hh EXCEPT !.sdSnap[c] = hh.nextTask - 1]

CallShutdown(c) ==
    /\ CanStart(c)
    /\ ShutdownFirst(c, [h EXCEPT !.opsStarted = @ + 1])
    /\ op' = [op EXCEPT ![c] = "shutdown"]
    /\ UNCHANGED g_refcount

ReleaseShutdown(c) ==
    /\ pc[c] = "sd_entry"
    /\ ShutdownFirst(c, h)
    /\ UNCHANGED <<g_refcount, op>>

SdJoinCall(c) == JoinCall(c, "sd_join_call", "sd_join_wait", "sd_free_test")
SdJoinWait(c) == JoinWait(c, "sd_join_wait", "sd_free_test")

\* if (g_h2gis_handle)
SdFreeTest(c) ==
    /\ Apart
    /\ pc[c] = "sd_free_test"
    /\ pc' = [pc EXCEPT ![c] = IF g_h2gis_handle THEN "sd_free" ELSE "sd_clear"]
    /\ UNCHANGED <<globals, op, jtarget, mytask, wvars, h>>

\* h2gis_free_library(g_h2gis_handle); g_h2gis_handle = nullptr
SdFree(c) ==
    /\ Apart
    /\ pc[c] = "sd_free"
    /\ g_h2gis_handle' = FALSE
    /\ h' = [h EXCEPT !.libRefs = DlClose(@), !.libFrees = @ + 1]
    /\ pc' = [pc EXCEPT ![c] = "sd_clear"]
    /\ UNCHANGED <<g_initialized, g_shutdown, fp_h2gis, g_worker_thread_handle,
                   g_task_queue, g_refcount, g_init_mutex, wait_count,
                   op, jtarget, mytask, wvars>>

\* g_initialized.store(false) and the return of h2gis_wrapper_shutdown
SdClear(c) ==
    /\ Apart
    /\ pc[c] = "sd_clear"
    /\ g_initialized' = FALSE
    /\ h' = [h EXCEPT !.terminated = TRUE, !.sdDone[c] = h.sdSnap[c]]
    /\ pc' = [pc EXCEPT ![c] = "idle"]
    /\ UNCHANGED <<g_shutdown, g_h2gis_handle, fp_h2gis, g_worker_thread_handle,
                   g_task_queue, g_refcount, g_init_mutex, wait_count,
                   op, jtarget, mytask, wvars>>

\* ---- h2gis_wrapper_add_ref / h2gis_wrapper_release --------------------------

CallAddRef(c) ==
    /\ Apart
    /\ CanStart(c)
    /\ g_refcount' = g_refcount + 1
    /\ op' = [op EXCEPT ![c] = "add_ref"]
    /\ h' = [h EXCEPT !.opsStarted = @ + 1]
    /\ UNCHANGED <<g_initialized, g_shutdown, g_h2gis_handle, fp_h2gis,
                   g_worker_thread_handle, g_task_queue, g_init_mutex,
                   wait_count, pc, jtarget, mytask, wvars>>

\* a variant of CallRelease that shuts down whenever the count is not above 1
CallReleaseAtMostOne(c) ==
    /\ Apart
    /\ CanStart(c)
    /\ g_refcount' = g_refcount - 1
    /\ pc' = [pc EXCEPT ![c] = IF g_refcount <= 1 THEN "sd_entry" ELSE "idle"]
    /\ op' = [op EXCEPT ![c] = "release"]
    /\ h' = [h EXCEPT !.opsStarted = @ + 1]
    /\ UNCHANGED <<g_initialized, g_shutdown, g_h2gis_handle, fp_h2gis,
                   g_worker_thread_handle, g_task_queue, g_init_mutex,
                   wait_count, jtarget, mytask, wvars>>

\* prev = g_refcount.fetch_sub(1); if (prev == 1) h2gis_wrapper_shutdown()
CallRelease(c) ==
    /\ Apart
    /\ CanStart(c)
    /\ g_refcount' = g_refcount - 1
    /\ pc' = [pc EXCEPT ![c] = IF g_refcount = 1 THEN "sd_entry" ELSE "idle"]
    /\ op' = [op EXCEPT ![c] = "release"]
    /\ h' = [h EXCEPT !.opsStarted = @ + 1]
    /\ UNCHANGED <<g_initialized, g_shutdown, g_h2gis_handle, fp_h2gis,
                   g_worker_thread_handle, g_task_queue, g_init_mutex,
                   wait_count, jtarget, mytask, wvars>>

\* ---- wrap_h2gis_* and execute_on_worker -------------------------------------

\* tasks that callers are committed to push
Committed == Cardinality({c \in Callers : pc[c] = "wrap_push"
                              \/ (op[c] = "connect" /\ pc[c] \in
                                    {"init_lock", "init_poll", "init_after"})})
MayPush == h.nextTask + Committed <= MaxTasks

\* a variant of CallExecute that goes on to execute_on_worker without the test
CallExecuteUnchecked(c) ==
    /\ Apart
    /\ CanStart(c)
    /\ MayPush
    /\ op' = [op EXCEPT ![c] = "execute"]
    /\ pc' = [pc EXCEPT ![c] = "wrap_push"]
    /\ h' = [h EXCEPT !.opsStarted = @ + 1]
    /\ UNCHANGED <<globals, jtarget, mytask, wvars>>

\* wrap_h2gis_execute (and every wrapper of its shape): the test
\* !h2gis_wrapper_is_initialized() || !fp_h2gis_execute
CallExecute(c) ==
    /\ Apart
    /\ CanStart(c)
    /\ MayPush
    /\ op' = [op EXCEPT ![c] = "execute"]
    /\ pc' = [pc EXCEPT ![c] = IF g_initialized /\ fp_h2gis
                               THEN "wrap_push" ELSE "idle"]
    /\ h' = [h EXCEPT !.opsStarted = @ + 1]
    /\ UNCHANGED <<globals, jtarget, mytask, wvars>>

\* wrap_h2gis_connect: initializes the bridge itself when it is not initialized
CallConnect(c) ==
    /\ MayPush
    /\ InitFirstCheck(c, "connect")

\* a variant of WrapPush that calls the engine on the caller's own thread
WrapPushInline(c) ==
    /\ Apart
    /\ pc[c] = "wrap_push"
    /\ \A w \in Workers : wpc[w] # "parking"
    /\ mytask' = [mytask EXCEPT ![c] = h.nextTask]
    /\ h' = [h EXCEPT !.nextTask = @ + 1,
                      !.owner = Append(@, c),
                      !.execLog = Append(@, [task |-> h.nextTask,
                                             tid |-> CallerTid(c)]),
                      !.fulfilled = @ \cup {h.nextTask}]
    /\ pc' = [pc EXCEPT ![c] = "wrap_get"]
    /\ UNCHANGED <<globals, op, jtarget, wvars>>

\* execute_on_worker: push the task under g_queue_mutex, then notify_one()
WrapPush(c) ==
    /\ Apart
    /\ pc[c] = "wrap_push"
    /\ \A w \in Workers : wpc[w] # "parking"
    /\ g_task_queue' = Append(g_task_queue, h.nextTask)
    /\ mytask' = [mytask EXCEPT ![c] = h.nextTask]
    /\ h' = [h EXCEPT !.nextTask = @ + 1, !.owner = Append(@, c)]
    /\ wpc' = Notify(wpc)
    /\ pc' = [pc EXCEPT ![c] = "wrap_get"]
    /\ UNCHANGED <<g_initialized, g_shutdown, g_h2gis_handle, fp_h2gis,
                   g_worker_thread_handle, g_refcount, g_init_mutex,
                   wait_count, op, jtarget, wtask, joiner>>

\* future.get(): returns once the task's promise has been set, with the
\* value, or by rethrowing the stored exception on the calling thread
WrapGet(c) ==
    /\ Apart
    /\ pc[c] = "wrap_get"
    /\ mytask[c] \in h.fulfilled
    /\ pc' = [pc EXCEPT ![c] = "idle"]
    /\ h' = IF mytask[c] \in h.raised
            THEN [h EXCEPT !.reraised = @ \cup {[task |-> mytask[c],
                                                 tid |-> CallerTid(c)]}]
            ELSE h
    /\ UNCHANGED <<globals, op, jtarget, mytask, wvars>>

\* ---- worker_thread_func -----------------------------------------------------

\* h2gis_load_library: by the configured path (the result is stored whatever
\* it is) or by the fallback list (the handle is stored only on success)
WLoad(w) ==
    /\ Apart
    /\ wpc[w] = "load"
    /\ \E explicit \in BOOLEAN, ok \in BOOLEAN :
         LET handle == IF ok THEN TRUE
                       ELSE IF explicit THEN FALSE ELSE g_h2gis_handle IN
         /\ g_h2gis_handle' = handle
         /\ h' = [h EXCEPT !.libRefs = IF ok THEN @ + 1 ELSE @]
         /\ wpc' = [wpc EXCEPT ![w] = IF handle THEN "symbols" ELSE "exited"]
    /\ UNCHANGED <<g_initialized, g_shutdown, fp_h2gis, g_worker_thread_handle,
                   g_task_queue, g_refcount, g_init_mutex, wait_count,
                   locals, wtask, joiner>>

\* h2gis_get_symbol for the graal_* and h2gis_* entry points, with the two
\* failure returns (graal_create_isolate missing; connect, execute or prepare
\* missing), each of which frees the library
WSymbols(w) ==
    /\ Apart
    /\ wpc[w] = "symbols"
    /\ \E r \in {"ok", "no_graal", "no_h2gis"} :
         IF r = "ok"
         THEN /\ fp_h2gis' = TRUE
              /\ wpc' = [wpc EXCEPT ![w] = "isolate"]
              /\ UNCHANGED <<g_h2gis_handle, h>>
         ELSE /\ fp_h2gis' = IF r = "no_graal" THEN fp_h2gis ELSE FALSE
              /\ g_h2gis_handle' = FALSE
              /\ h' = [h EXCEPT !.libRefs = DlClose(@)]
              /\ wpc' = [wpc EXCEPT ![w] = "exited"]
    /\ UNCHANGED <<g_initialized, g_shutdown, g_worker_thread_handle,
                   g_task_queue, g_refcount, g_init_mutex, wait_count,
                   locals, wtask, joiner>>

\* fp_graal_create_isolate and, on success, g_initialized.store(true)
WIsolate(w) ==
    /\ Apart
    /\ wpc[w] = "isolate"
    /\ \E ok \in BOOLEAN :
         IF ok
         THEN /\ g_initialized' = TRUE
              /\ h' = [h EXCEPT !.isolates = @ + 1]
              /\ wpc' = [wpc EXCEPT ![w] = "loop_head"]
              /\ UNCHANGED g_h2gis_handle
         ELSE /\ g_h2gis_handle' = FALSE
              /\ h' = [h EXCEPT !.libRefs = DlClose(@)]
              /\ wpc' = [wpc EXCEPT ![w] = "exited"]
              /\ UNCHANGED g_initialized
    /\ UNCHANGED <<g_shutdown, fp_h2gis, g_worker_thread_handle,
                   g_task_queue, g_refcount, g_init_mutex, wait_count,
                   locals, wtask, joiner>>

\* while (!g_shutdown.load())
WLoopHead(w) ==
    /\ Apart
    /\ wpc[w] = "loop_head"
    /\ wpc' = [wpc EXCEPT ![w] = IF g_shutdown THEN "cleanup" ELSE "wait"]
    /\ UNCHANGED <<globals, locals, wtask, joiner, h>>

\* under g_queue_mutex: the wait predicate; when it holds, the break test
\* and the pop of one task; when it does not, the thread is about to block
WWait(w) ==
    /\ Apart
    /\ wpc[w] = "wait"
    /\ IF g_task_queue # <<>> \/ g_shutdown
       THEN IF g_shutdown /\ g_task_queue = <<>>
            THEN /\ wpc' = [wpc EXCEPT ![w] = "cleanup"]
                 /\ UNCHANGED <<g_task_queue, wtask>>
            ELSE /\ wtask' = [wtask EXCEPT ![w] = QueueFront(g_task_queue)]
                 /\ g_task_queue' = QueueRest(g_task_queue)
                 /\ wpc' = [wpc EXCEPT ![w] = "run"]
       ELSE /\ wpc' = [wpc EXCEPT ![w] = "parking"]
            /\ UNCHANGED <<g_task_queue, wtask>>
    /\ UNCHANGED <<g_initialized, g_shutdown, g_h2gis_handle, fp_h2gis,
                   g_worker_thread_handle, g_refcount, g_init_mutex,
                   wait_count, locals, joiner, h>>

\* condition_variable::wait releases g_queue_mutex and blocks
WPark(w) ==
    /\ Apart
    /\ wpc[w] = "parking"
    /\ wpc' = [wpc EXCEPT ![w] = "sleeping"]
    /\ UNCHANGED <<globals, locals, wtask, joiner, h>>

\* a variant of WRun whose task lambda has no try / catch: an exception
\* thrown by func() leaves task() and ends the worker thread, the promise
\* is never set
WRunUncaught(w) ==
    /\ Apart
    /\ wpc[w] = "run"
    /\ \E threw \in BOOLEAN :
         /\ threw => Cardinality(h.raised) < MaxThrows
         /\ h' = [h EXCEPT !.execLog = Append(@, [task |-> wtask[w],
                                                  tid |-> WorkerTid(w)]),
                           !.fulfilled = IF threw THEN @ ELSE @ \cup {wtask[w]},
                           !.raised = IF threw THEN @ \cup {wtask[w]} ELSE @]
         /\ wpc' = [wpc EXCEPT ![w] = IF threw THEN "exited" ELSE "loop_head"]
    /\ wtask' = [wtask EXCEPT ![w] = 0]
    /\ UNCHANGED <<globals, locals, joiner>>

\* task(): the engine call of the popped task inside try / catch, then
\* promise.set_value, or promise.set_exception when func() threw
WRun(w) ==
    /\ Apart
    /\ wpc[w] = "run"
    /\ \E threw \in BOOLEAN :
         /\ threw => Cardinality(h.raised) < MaxThrows
         /\ h' = [h EXCEPT !.execLog = Append(@, [task |-> wtask[w],
                                                  tid |-> WorkerTid(w)]),
                           !.fulfilled = @ \cup {wtask[w]},
                           !.raised = IF threw THEN @ \cup {wtask[w]} ELSE @]
    /\ wtask' = [wtask EXCEPT ![w] = 0]
    /\ wpc' = [wpc EXCEPT ![w] = "loop_head"]
    /\ UNCHANGED <<globals, locals, joiner>>

\* fp_graal_detach_thread and the return of worker_thread_func
WCleanup(w) ==
    /\ Apart
    /\ wpc[w] = "cleanup"
    /\ wpc' = [wpc EXCEPT ![w] = "exited"]
    /\ UNCHANGED <<globals, locals, wtask, joiner, h>>

\* ==== the layers (OGRH2GISLayer, OGRH2GISResultLayer) and the engine they read ====
\*
\* A layer is used from one thread; each of its methods is one step.  The
\* calls it makes through the bridge (h2gis_prepare, h2gis_execute_prepared,
\* h2gis_fetch_batch, h2gis_free_result_buffer, h2gis_close_query) are
\* synchronous and are modelled by their effect on the engine record.
\*
\* layer:   the members of the layer object
\*   kind              "table" (OGRH2GISLayer) or "result" (OGRH2GISResultLayer)
\*   alive             the object has not been destroyed
\*   m_nRS, m_hStmt    handles (0: none)
\*   m_pBatchBuffer    buffer held (0: nullptr)
\*   m_nBatchRows, m_iNextRowInBatch, m_iNextShapeId (m_iNextFID), m_bResetPending
\*   m_columnValues    where the column read pointers point: [buf, row]
\*                     (the pointers advance together, one value per row)
\*   filter            an attribute or spatial filter is installed
\* engine:  the query side of the native library
\*   T, B              rows of the table; largest batch the engine serves
\*   handles           handle id -> [kind, filter, offset, closes]
\*   cursor            [rs, rows]: open result set and the rows it has left
\*   bufs              buffer id -> [rows, frees]
\* lh:      history of the layer's run (read by no step of the code)
\*   ops       method calls made           faults   prepare / execute failures
\*   fetches   h2gis_fetch_batch calls     maxLive  most buffers unreleased at once
\*   out       rows returned since the read position was last set
\*   base      index the read position was last set to
\*   viaReset  ... by ResetReading or construction (not SetNextByIndex)
\*   faulty    a prepare or execute has failed since then
\*   eos       a fetch has returned no buffer or zero rows since then
\*   eosFetch  fetches issued after such a fetch, since then
\*   prepSince h2gis_prepare calls made since then
\*   lookups   GetFeature calls made
\*   ended     a GetNextFeature has returned nullptr since then
\*   last      the method called last
\*   call      the last GetNextFeature call: [ret, fetches, exhausted, newBuf]
\*             ret: row returned (0: nullptr, -1: not a row of the held buffer)
\*             exhausted: m_iNextRowInBatch >= m_nBatchRows when it started
\*             newBuf: it installed a batch it fetched

\* rows (numbered from 1) of the result of the layer's query: with a filter
\* installed the rows with an odd number, then OFFSET off
RECURSIVE Drop(_, _)
Drop(s, n) == IF n <= 0 \/ s = <<>> THEN s ELSE Drop(Tail(s), n - 1)
TableRows(T, f) ==
    IF f THEN [i \in 1 .. ((T + 1) \div 2) |-> 2 * i - 1] ELSE [i \in 1 .. T |-> i]
ResultRows(T, f, off) == Drop(TableRows(T, f), off)

NoCall == [ret |-> 0, fetches |-> 0, exhausted |-> FALSE, newBuf |-> FALSE]

\* the record of a GetNextFeature call that starts in W
CallStart(W) ==
    [NoCall EXCEPT !.exhausted =
                      W.layer.m_iNextRowInBatch >= W.layer.m_nBatchRows]

\* the read position was set anew (construction, ResetReading, SetNextByIndex)
Repositioned(hist, idx, reset) ==
    [hist EXCEPT !.out = <<>>, !.base = idx, !.viaReset = reset,
                 !.faulty = FALSE, !.eos = FALSE, !.eosFetch = 0,
                 !.ended = FALSE, !.prepSince = 0]

\* ---- the engine entry points, as called through the bridge -----------------

\* h2gis_prepare: a new statement handle, or 0
EnginePrepare(W, f, off, ok) ==
    IF ok
    THEN [W EXCEPT !.engine.handles =
                      Append(@, [kind |-> "stmt", filter |-> f, offset |-> off,
                                 closes |-> 0]),
                   !.lh.prepSince = @ + 1,
                   !.ret = Len(W.engine.handles) + 1]
    ELSE [W EXCEPT !.ret = 0, !.lh.faults = @ + 1, !.lh.faulty = TRUE,
                   !.lh.prepSince = @ + 1]

\* h2gis_execute_prepared: a new result-set handle positioned before the
\* first row of the statement's result, or 0
EngineExecute(W, stmt, ok) ==
    IF ok
    THEN LET st == W.engine.handles[stmt]
             rs == Len(W.engine.handles) + 1 IN
         [W EXCEPT !.engine.handles =
                      Append(@, [kind |-> "rs", filter |-> st.filter,
                                 offset |-> st.offset, closes |-> 0]),
                   !.engine.cursor =
                      [rs |-> rs,
                       rows |-> ResultRows(W.engine.T, st.filter, st.offset)],
                   !.ret = rs]
    ELSE [W EXCEPT !.ret = 0, !.lh.faults = @ + 1, !.lh.faulty = TRUE]

\* h2gis_close_query
EngineClose(W, hd) ==
    [W EXCEPT !.engine.handles[hd].closes = @ + 1,
              !.engine.cursor = IF @.rs = hd THEN [rs |-> 0, rows |-> <<>>] ELSE @]

\* buffers handed out and not yet released
Live(e) == {b \in DOMAIN e.bufs : e.bufs[b].frees = 0}

\* h2gis_fetch_batch(rs, 1000): the next k rows (k at most B and at most what
\* is left) in a new buffer; at the end of the result no buffer (empty =
\* "null") or a buffer of zero rows (empty = "zero_rows")
EngineFetch(W, rs, k, empty) ==
    LET e    == W.engine
        left == IF e.cursor.rs = rs THEN e.cursor.rows ELSE <<>>
        n    == IF k <= Len(left) THEN k ELSE Len(left)
        hist == [W.lh EXCEPT !.fetches = @ + 1,
                             !.call.fetches = @ + 1,
                             !.eosFetch = IF W.lh.eos THEN @ + 1 ELSE @,
                             !.eos = @ \/ n = 0]
    IN IF n = 0 /\ empty = "null"
       THEN [W EXCEPT !.lh = hist, !.ret = 0]
       ELSE LET e1 == [e EXCEPT !.bufs = Append(@, [rows |-> SubSeq(left, 1, n),
                                                    frees |-> 0]),
                                !.cursor.rows = Drop(left, n)]
                live == Cardinality(Live(e1)) IN
            [W EXCEPT !.engine = e1,
                      !.lh = [hist EXCEPT !.maxLive = IF live > @ THEN live ELSE @],
                      !.ret = Len(e1.bufs)]

\* h2gis_free_result_buffer
EngineFree(W, b) == [W EXCEPT !.engine.bufs[b].frees = @ + 1]

\* ---- OGRH2GISLayer -----------------------------------------------------------

\* a variant of ClearStatement that closes the result set and forgets the
\* statement without closing it
ClearStatementRsOnly(W) ==
    LET W1 == IF W.layer.m_nRS # 0
              THEN [EngineClose(W, W.layer.m_nRS) EXCEPT !.layer.m_nRS = 0]
              ELSE W
    IN [W1 EXCEPT !.layer.m_hStmt = 0]

\* OGRH2GISLayer::ClearStatement
ClearStatement(W) ==
    LET W1 == IF W.layer.m_nRS # 0
              THEN [EngineClose(W, W.layer.m_nRS) EXCEPT !.layer.m_nRS = 0]
              ELSE W
    IN IF W1.layer.m_hStmt # 0
       THEN [EngineClose(W1, W1.layer.m_hStmt) EXCEPT !.layer.m_hStmt = 0]
       ELSE W1

\* a variant of ResetReading that prepares and executes the query at once
ResetReadingEager(W) ==
    LET W1 == ClearStatement(W)
        W2 == EnginePrepare(W1, W1.layer.filter, 0, TRUE)
        W3 == EngineExecute([W2 EXCEPT !.layer.m_hStmt = W2.ret], W2.ret, TRUE)
    IN [W3 EXCEPT !.layer.m_nRS = W3.ret,
                  !.layer.m_iNextShapeId = 0,
                  !.layer.m_nBatchRows = 0,
                  !.layer.m_iNextRowInBatch = 0,
                  !.layer.m_bResetPending = FALSE]

\* OGRH2GISLayer::ResetReading
ResetReading(W) ==
    LET W1 == ClearStatement(W) IN
    [W1 EXCEPT !.layer.m_iNextShapeId = 0,
               !.layer.m_nBatchRows = 0,
               !.layer.m_iNextRowInBatch = 0,
               !.layer.m_bResetPending = TRUE]

\* OGRH2GISLayer::PrepareQuery
PrepareQuery(W, okP, okE) ==
    IF ~W.layer.m_bResetPending
    THEN W
    ELSE LET W1 == EnginePrepare([W EXCEPT !.layer.m_bResetPending = FALSE],
                                 W.layer.filter, W.layer.m_iNextShapeId, okP)
             W2 == [W1 EXCEPT !.layer.m_hStmt = W1.ret]
         IN IF W2.layer.m_hStmt = 0
            THEN W2
            ELSE LET W3 == EngineExecute(W2, W2.layer.m_hStmt, okE)
                     W4 == [W3 EXCEPT !.layer.m_nRS = W3.ret]
                 IN IF W4.layer.m_nRS = 0
                    THEN [EngineClose(W4, W4.layer.m_hStmt)
                             EXCEPT !.layer.m_hStmt = 0]
                    ELSE W4

\* a variant of ReleaseHeld that keeps the previous buffer (never frees it)
ReleaseHeldLate(W) == [W EXCEPT !.layer.m_pBatchBuffer = 0]

\* FetchNextBatch, first part: if (m_pBatchBuffer) { free; m_pBatchBuffer = nullptr }
ReleaseHeld(W) ==
    IF W.layer.m_pBatchBuffer # 0
    THEN [EngineFree(W, W.layer.m_pBatchBuffer) EXCEPT !.layer.m_pBatchBuffer = 0]
    ELSE W

\* FetchNextBatch (both classes have the same body); .ret is its result
FetchNextBatch(W, k, empty) ==
    IF W.layer.m_nRS = 0
    THEN [W EXCEPT !.ret = FALSE]
    ELSE LET W1 == EngineFetch(ReleaseHeld(W), W.layer.m_nRS, k, empty)
             W2 == [W1 EXCEPT !.layer.m_pBatchBuffer = W1.ret]
         IN IF W2.layer.m_pBatchBuffer = 0
            THEN [W2 EXCEPT !.ret = FALSE]
            ELSE LET rowCount == Len(W2.engine.bufs[W2.layer.m_pBatchBuffer].rows)
                     W3 == [W2 EXCEPT !.layer.m_nBatchRows = rowCount] IN
                 IF rowCount <= 0
                 THEN [W3 EXCEPT !.ret = FALSE]
                 ELSE [W3 EXCEPT !.layer.m_columnValues =
                                     [buf |-> W2.layer.m_pBatchBuffer, row |-> 0],
                                 !.layer.m_iNextRowInBatch = 0,
                                 !.lh.call.newBuf = TRUE,
                                 !.ret = TRUE]

\* the row the column read pointers stand on: a row of the buffer they point
\* into, or bytes that are no row of an unreleased buffer (-1)
RowAtCursor(W) ==
    LET cv == W.layer.m_columnValues IN
    IF /\ cv.buf \in DOMAIN W.engine.bufs
       /\ W.engine.bufs[cv.buf].frees = 0
       /\ cv.row + 1 \in DOMAIN W.engine.bufs[cv.buf].rows
    THEN W.engine.bufs[cv.buf].rows[cv.row + 1]
    ELSE -1

\* a variant of ReadRow that refills only when m_iNextRowInBatch > m_nBatchRows
ReadRowLateRefill(W, k, empty) ==
    LET W2 == IF W.layer.m_iNextRowInBatch > W.layer.m_nBatchRows
              THEN FetchNextBatch(W, k, empty)
              ELSE [W EXCEPT !.ret = TRUE]
    IN IF W2.ret = FALSE
       THEN [W2 EXCEPT !.lh.call.ret = 0, !.lh.ended = TRUE]
       ELSE LET row == RowAtCursor(W2) IN
            [W2 EXCEPT !.layer.m_columnValues.row = @ + 1,
                       !.layer.m_iNextShapeId = @ + 1,
                       !.layer.m_iNextRowInBatch = @ + 1,
                       !.lh.call.ret = row,
                       !.lh.out = Append(@, row)]

\* a variant of ReadRow that fetches the next batch as soon as it has handed
\* out the last row of the one it holds
ReadRowEager(W, k, empty) ==
    LET W2 == IF W.layer.m_iNextRowInBatch >= W.layer.m_nBatchRows
              THEN FetchNextBatch(W, k, empty)
              ELSE [W EXCEPT !.ret = TRUE]
    IN IF W2.ret = FALSE
       THEN [W2 EXCEPT !.lh.call.ret = 0, !.lh.ended = TRUE]
       ELSE LET row == RowAtCursor(W2)
                W3 == [W2 EXCEPT !.layer.m_columnValues.row = @ + 1,
                                 !.layer.m_iNextShapeId = @ + 1,
                                 !.layer.m_iNextRowInBatch = @ + 1,
                                 !.lh.call.ret = row,
                                 !.lh.out = Append(@, row)]
            IN IF W3.layer.m_iNextRowInBatch >= W3.layer.m_nBatchRows
               THEN FetchNextBatch(W3, k, empty)
               ELSE W3

\* the tail both GetNextFeature bodies share: refill when the batch is used
\* up, decode one row through the column pointers, advance
ReadRow(W, k, empty) ==
    LET W2 == IF W.layer.m_iNextRowInBatch >= W.layer.m_nBatchRows
              THEN FetchNextBatch(W, k, empty)
              ELSE [W EXCEPT !.ret = TRUE]
    IN IF W2.ret = FALSE
       THEN [W2 EXCEPT !.lh.call.ret = 0, !.lh.ended = TRUE]
       ELSE LET row == RowAtCursor(W2) IN
            [W2 EXCEPT !.layer.m_columnValues.row = @ + 1,
                       !.layer.m_iNextShapeId = @ + 1,
                       !.layer.m_iNextRowInBatch = @ + 1,
                       !.lh.call.ret = row,
                       !.lh.out = Append(@, row)]

\* OGRH2GISLayer::GetNextFeature
GetNextFeature(W, okP, okE, k, empty) ==
    LET W0 == [W EXCEPT !.lh.call = CallStart(W)]
        W1 == IF W0.layer.m_bResetPending THEN PrepareQuery(W0, okP, okE) ELSE W0
        W2 == IF W1.layer.m_nRS = 0 THEN ResetReading(W1) ELSE W1
    IN ReadRow(W2, k, empty)

\* a variant of SetNextByIndex that releases the batch buffer and leaves the
\* row counters as they are
SetNextByIndexFreeing(W, nIndex) ==
    IF nIndex < 0
    THEN [W EXCEPT !.ret = FALSE]
    ELSE [ReleaseHeld(ClearStatement(W))
             EXCEPT !.layer.m_iNextShapeId = nIndex,
                    !.layer.m_bResetPending = TRUE,
                    !.ret = TRUE]

\* a variant of SetNextByIndex that also drops the batch being read, as
\* ResetReading does
SetNextByIndexDropping(W, nIndex) ==
    IF nIndex < 0
    THEN [W EXCEPT !.ret = FALSE]
    ELSE [ClearStatement(W) EXCEPT !.layer.m_iNextShapeId = nIndex,
                                   !.layer.m_nBatchRows = 0,
                                   !.layer.m_iNextRowInBatch = 0,
                                   !.layer.m_bResetPending = TRUE,
                                   !.ret = TRUE]

\* OGRH2GISLayer::SetNextByIndex; .ret is OGRERR_NONE (TRUE) or OGRERR_FAILURE
SetNextByIndex(W, nIndex) ==
    IF nIndex < 0
    THEN [W EXCEPT !.ret = FALSE]
    ELSE [ClearStatement(W) EXCEPT !.layer.m_iNextShapeId = nIndex,
                                   !.layer.m_bResetPending = TRUE,
                                   !.ret = TRUE]

\* OGRH2GISLayer::SetAttributeFilter / SetSpatialFilter
SetFilter(W, f) == ResetReading([W EXCEPT !.layer.filter = f])

\* a variant of DestroyLayer that forgets the batch buffer
DestroyLayerNoFree(W) == [ClearStatement(W) EXCEPT !.layer.alive = FALSE]

\* OGRH2GISLayer::~OGRH2GISLayer
DestroyLayer(W) ==
    LET W1 == ClearStatement(W)
        W2 == IF W1.layer.m_pBatchBuffer # 0
              THEN EngineFree(W1, W1.layer.m_pBatchBuffer) ELSE W1
    IN [W2 EXCEPT !.layer.alive = FALSE]

\* ---- OGRH2GISResultLayer -----------------------------------------------------

\* OGRH2GISResultLayer::ClearStatement
ResultClearStatement(W) ==
    LET W1 == IF W.layer.m_pBatchBuffer # 0
              THEN EngineFree(W, W.layer.m_pBatchBuffer) ELSE W
        W2 == IF W1.layer.m_nRS # 0 THEN EngineClose(W1, W1.layer.m_nRS) ELSE W1
        W3 == IF W2.layer.m_hStmt # 0 THEN EngineClose(W2, W2.layer.m_hStmt) ELSE W2
    IN [W3 EXCEPT !.layer.m_nRS = 0, !.layer.m_hStmt = 0,
                  !.layer.m_pBatchBuffer = 0]

\* the prepare / execute pair of the constructor and of ResetReading
ResultOpen(W, okP, okE) ==
    LET W1 == EnginePrepare(W, FALSE, 0, okP)
        W2 == [W1 EXCEPT !.layer.m_hStmt = W1.ret]
    IN IF W2.layer.m_hStmt = 0
       THEN W2
       ELSE LET W3 == EngineExecute(W2, W2.layer.m_hStmt, okE) IN
            [W3 EXCEPT !.layer.m_nRS = W3.ret]

\* OGRH2GISResultLayer::ResetReading
ResultResetReading(W, okP, okE) ==
    LET W1 == ResultClearStatement(W)
        W2 == ResultOpen(W1, okP, okE)
    IN [W2 EXCEPT !.layer.m_nBatchRows = 0,
                  !.layer.m_iNextRowInBatch = 0,
                  !.layer.m_iNextShapeId = 0]

\* OGRH2GISResultLayer::GetNextFeature
ResultGetNextFeature(W, k, empty) ==
    LET W0 == [W EXCEPT !.lh.call = CallStart(W)] IN
    IF W0.layer.m_nRS = 0
    THEN [W0 EXCEPT !.lh.call.ret = 0, !.lh.ended = TRUE]
    ELSE ReadRow(W0, k, empty)

\* OGRH2GISResultLayer::~OGRH2GISResultLayer
ResultDestroyLayer(W) == [ResultClearStatement(W) EXCEPT !.layer.alive = FALSE]

\* ---- the layer as a state machine ---------------------------------------------

NoLayer ==
    [kind |-> "none", alive |-> FALSE, m_nRS |-> 0, m_hStmt |-> 0,
     m_pBatchBuffer |-> 0, m_nBatchRows |-> 0, m_iNextRowInBatch |-> 0,
     m_iNextShapeId |-> 0, m_bResetPending |-> FALSE,
     m_columnValues |-> [buf |-> 0, row |-> 0], filter |-> FALSE]
NoEngine ==
    [T |-> 0, B |-> 1, handles |-> <<>>, cursor |-> [rs |-> 0, rows |-> <<>>],
     bufs |-> <<>>]
NoHist ==
    [ops |-> 0, faults |-> 0, fetches |-> 0, maxLive |-> 0, out |-> <<>>,
     base |-> 0, viaReset |-> TRUE, faulty |-> FALSE, eos |-> FALSE,
     eosFetch |-> 0, ended |-> FALSE, prepSince |-> 0, lookups |-> 0,
     last |-> "none",
     call |-> NoCall]

\* no layer is open (the bridge is looked at on its own)
LayerIdle == layer = NoLayer /\ engine = NoEngine /\ lh = NoHist

\* OGRH2GISLayer::OGRH2GISLayer: the member initializers
NewLayer == [NoLayer EXCEPT !.kind = "table", !.alive = TRUE,
                            !.m_bResetPending = TRUE]

\* OGRH2GISResultLayer::OGRH2GISResultLayer: the member initializers, then
\* prepare and execute of the statement
NewResultLayer(W, okP, okE) ==
    ResultOpen([W EXCEPT !.layer = [NoLayer EXCEPT !.kind = "result",
                                                   !.alive = TRUE]], okP, okE)

\* the layer, the engine and the history as the methods above take them
World == [layer |-> layer, engine |-> engine, lh |-> lh, ret |-> 0]

\* the state a method call leaves behind
Commit(W, method) ==
    /\ layer' = W.layer
    /\ engine' = W.engine
    /\ lh' = [W.lh EXCEPT !.ops = @ + 1, !.last = method]
    /\ UNCHANGED <<bridgeVars, cvars, ds>>

CanCall(kind) == layer.alive /\ layer.kind = kind /\ lh.ops < MaxLayerOps

\* prepare or execute may fail while faults are left
FaultOk(okP, okE) == (~okP \/ ~okE) => lh.faults < MaxFaults

EmptyKinds == {"null", "zero_rows"}

LayerInit ==
    /\ BridgeInit
    /\ CodecIdle
    /\ DataSourceIdle
    /\ \E T \in 0 .. MaxRows, B \in 1 .. MaxBatch :
         LET W0 == [layer |-> NewLayer,
                    engine |-> [NoEngine EXCEPT !.T = T, !.B = B],
                    lh |-> NoHist, ret |-> 0] IN
         \E kind \in {"table", "result"}, okP \in BOOLEAN, okE \in BOOLEAN :
            LET W == IF kind = "table" THEN W0
                     ELSE NewResultLayer(W0, okP, okE) IN
            /\ kind = "table" => okP /\ okE
            /\ layer = W.layer
            /\ engine = W.engine
            /\ lh = W.lh

LGetNextFeature ==
    /\ CanCall("table")
    /\ \E okP \in BOOLEAN, okE \in BOOLEAN, k \in 1 .. engine.B,
          empty \in EmptyKinds :
         /\ FaultOk(okP, okE)
         /\ Commit(GetNextFeature(World, okP, okE, k, empty), "GetNextFeature")

LResetReading ==
    /\ CanCall("table")
    /\ Commit([ResetReading(World) EXCEPT !.lh = Repositioned(@, 0, TRUE)],
              "ResetReading")

LSetNextByIndex ==
    /\ CanCall("table")
    /\ \E nIndex \in -1 .. MaxRows - 1 :
         LET W == SetNextByIndex(World, nIndex) IN
         Commit(IF W.ret THEN [W EXCEPT !.lh = Repositioned(@, nIndex, FALSE)]
                ELSE W, "SetNextByIndex")

LSetFilter ==
    /\ CanCall("table")
    /\ \E f \in BOOLEAN :
         Commit([SetFilter(World, f) EXCEPT !.lh = Repositioned(@, 0, TRUE)],
                "SetFilter")

LDestroy ==
    /\ layer.alive /\ layer.kind = "table"
    /\ Commit(DestroyLayer(World), "destructor")

RGetNextFeature ==
    /\ CanCall("result")
    /\ \E k \in 1 .. engine.B, empty \in EmptyKinds :
         Commit(ResultGetNextFeature(World, k, empty), "GetNextFeature")

RResetReading ==
    /\ CanCall("result")
    /\ \E okP \in BOOLEAN, okE \in BOOLEAN :
         /\ FaultOk(okP, okE)
         /\ Commit(ResultResetReading(
                     [World EXCEPT !.lh = Repositioned(@, 0, TRUE)], okP, okE),
                   "ResetReading")

RDestroy ==
    /\ layer.alive /\ layer.kind = "result"
    /\ Commit(ResultDestroyLayer(World), "destructor")

LayerNext ==
    \/ LGetNextFeature
    \/ LResetReading
    \/ LSetNextByIndex
    \/ LSetFilter
    \/ LDestroy
    \/ RGetNextFeature
    \/ RResetReading
    \/ RDestroy

LayerSpec == LayerInit /\ [][LayerNext]_vars

\* ---- OGRH2GISLayer::GetFeature --------------------------------------------------
\* GetFeature runs a query of its own (SELECT * ... WHERE fid = nFID) with
\* local handles and a local buffer, next to whatever sequential read the
\* layer is in the middle of.

\* h2gis_execute_prepared on the statement of GetFeature: a new result-set
\* handle; the result set of the layer's sequential read is another one and
\* keeps its position
EngineExecuteLocal(W, stmt, ok) ==
    IF ok
    THEN LET st == W.engine.handles[stmt] IN
         [W EXCEPT !.engine.handles =
                      Append(@, [kind |-> "rs", filter |-> st.filter,
                                 offset |-> st.offset, closes |-> 0]),
                   !.ret = Len(W.engine.handles) + 1]
    ELSE [W EXCEPT !.ret = 0, !.lh.faults = @ + 1, !.lh.faulty = TRUE]

\* what h2gis_fetch_one hands back: no buffer; a buffer with sizeOut <= 0; a
\* buffer of zero rows; a buffer with the row
FetchOneKinds == {"null", "no_size", "zero_rows", "row"}

\* h2gis_fetch_one(rs, &sizeOut); .ret is the buffer (0: nullptr)
EngineFetchOne(W, nFID, out) ==
    IF out = "null"
    THEN [W EXCEPT !.ret = 0]
    ELSE [W EXCEPT !.engine.bufs =
                      Append(@, [rows |-> IF out = "row" THEN <<nFID>> ELSE <<>>,
                                 frees |-> 0]),
                   !.ret = Len(W.engine.bufs) + 1]

\* a variant of GetFeatureCall whose early returns leave what was opened
GetFeatureCallLeaky(W, nFID, okP, okE, out) ==
    LET W1 == EnginePrepare(W, FALSE, 0, okP)
        stmt == W1.ret IN
    IF stmt = 0
    THEN [W1 EXCEPT !.lh.call.ret = 0]
    ELSE LET W2 == EngineExecuteLocal(W1, stmt, okE)
             rs == W2.ret IN
         IF rs = 0
         THEN [W2 EXCEPT !.lh.call.ret = 0]
         ELSE LET W3 == EngineFetchOne(W2, nFID, out)
                  buffer == W3.ret IN
              IF out # "row"
              THEN [W3 EXCEPT !.lh.call.ret = 0]
              ELSE [EngineClose(EngineClose(EngineFree(W3, buffer), rs), stmt)
                       EXCEPT !.lh.call.ret = nFID]

\* OGRH2GISLayer::GetFeature: prepare, execute, fetch_one, the decode of the
\* one row, and the releases on each of its returns; .lh.call.ret is the
\* feature (0: nullptr)
GetFeatureCall(W, nFID, okP, okE, out) ==
    LET W1 == EnginePrepare(W, FALSE, 0, okP)
        stmt == W1.ret IN
    IF stmt = 0
    THEN [W1 EXCEPT !.lh.call.ret = 0]
    ELSE LET W2 == EngineExecuteLocal(W1, stmt, okE)
             rs == W2.ret IN
         IF rs = 0
         THEN [EngineClose(W2, stmt) EXCEPT !.lh.call.ret = 0]
         ELSE LET W3 == EngineFetchOne(W2, nFID, out)
                  buffer == W3.ret
                  W4 == IF buffer # 0 THEN EngineFree(W3, buffer) ELSE W3 IN
              [EngineClose(EngineClose(W4, rs), stmt)
                  EXCEPT !.lh.call.ret = IF out = "row" THEN nFID ELSE 0]

LGetFeature ==
    /\ CanCall("table")
    /\ lh.lookups < MaxLookups
    /\ \E nFID \in 1 .. MaxRows, okP \in BOOLEAN, okE \in BOOLEAN,
          out \in FetchOneKinds :
         /\ FaultOk(okP, okE)
         /\ Commit(GetFeatureCall([World EXCEPT !.lh.call = NoCall,
                                                !.lh.lookups = @ + 1],
                                  nFID, okP, okE, out), "GetFeature")

FeatureNext ==
    \/ LGetNextFeature
    \/ LResetReading
    \/ LDestroy
    \/ LGetFeature

FeatureSpec == LayerInit /\ [][FeatureNext]_vars

\* ==== the result buffer codec (the row decode of GetNextFeature) ==============
\*
\* batch:   one result buffer as FetchNextBatch has laid it out
\*   rowCount   rows of the batch
\*   cols       column -> [type, data, vals]: the type tag, the bytes of the
\*              column's row data (where m_columnValues[iCol] first points) and
\*              the values the engine encoded there (read by no step of the code)
\* ptr:     column -> bytes the read pointer m_columnValues[iCol] has advanced
\* prevPtr: ptr before the row decoded last
\* iRow:    rows decoded (m_iNextRowInBatch)
\* decoded: column -> what the row decoded last produced for it
\* running: the process has not been brought down by the decode
\*
\* A byte is a number in 0 .. 255.  A 32-bit or 64-bit quantity whose value
\* can exceed the checker's integers is kept as its base-256 digits, most
\* significant first; the host is little-endian (memcpy of w bytes into a
\* w-byte scalar makes the first byte the least significant digit).

H2GIS_TYPE_INT    == 1
H2GIS_TYPE_LONG   == 2
H2GIS_TYPE_FLOAT  == 3
H2GIS_TYPE_DOUBLE == 4
H2GIS_TYPE_BOOL   == 5
H2GIS_TYPE_STRING == 6
H2GIS_TYPE_DATE   == 7
H2GIS_TYPE_GEOM   == 8
H2GIS_TYPE_OTHER  == 99

RECURSIVE Reverse(_)
Reverse(s) == IF s = <<>> THEN <<>> ELSE Append(Reverse(Tail(s)), Head(s))
RECURSIVE Flatten(_)
Flatten(ss) == IF ss = <<>> THEN <<>> ELSE Head(ss) \o Flatten(Tail(ss))

\* ---- the engine's side: how values are laid out in a column ----------------

\* int32 as 4 bytes, least significant first (two's complement)
EncInt32(v) ==
    LET w == IF v < 0 THEN (v + 2147483647) + 1 ELSE v IN
    << w % 256, (w \div 256) % 256, (w \div 65536) % 256,
       (w \div 16777216) + (IF v < 0 THEN 128 ELSE 0) >>

\* a scalar given by its digits, as bytes least significant first
EncDigits(d) == Reverse(d)

\* a length-prefixed value
EncVar(bytes) == EncInt32(Len(bytes)) \o bytes

\* the extended form of a canonical geometry G (order marker, shape type,
\* payload): bit 0x20000000 set in the shape type, the identifier S (digits)
\* inserted after it in the same byte order
ExtendGeom(G, S) ==
    LET le   == G[1] = 1
        ty   == IF le THEN <<G[2], G[3], G[4], G[5] + 32>>
                      ELSE <<G[2] + 32, G[3], G[4], G[5]>>
        srid == IF le THEN Reverse(S) ELSE S
    IN <<G[1]>> \o ty \o srid \o SubSeq(G, 6, Len(G))

\* ---- the decode of one value, as GetNextFeature does it ------------------------

\* the byte at ptr[i] (i counted from 0 at offset p); past the end of the
\* column's data the read is out of bounds and yields whatever lies there
ByteAt(data, p, i, junk) ==
    IF p + i + 1 \in DOMAIN data THEN data[p + i + 1] ELSE junk
Bytes(data, p, n, junk) == [i \in 1 .. n |-> ByteAt(data, p, i - 1, junk)]

\* memcpy of 4 bytes into an int32_t
Int32Of(b) ==
    LET low == b[1] + 256 * b[2] + 65536 * b[3] IN
    IF b[4] >= 128 THEN (b[4] - 256) * 16777216 + low ELSE b[4] * 16777216 + low

\* memcpy of 1 byte into an int8_t, widened to int
Int8Of(b) == IF b[1] >= 128 THEN b[1] - 256 ELSE b[1]

\* memcpy of w bytes into a w-byte scalar: its digits, most significant first
DigitsOf(b) == Reverse(b)

\* a variant of FixedWidth that reads a float as 8 bytes
FixedWidthFloat8(type) ==
    IF type = H2GIS_TYPE_INT THEN 4
    ELSE IF type = H2GIS_TYPE_LONG THEN 8
    ELSE IF type = H2GIS_TYPE_FLOAT THEN 8
    ELSE IF type = H2GIS_TYPE_DOUBLE THEN 8
    ELSE 1

\* the bytes each fixed-width branch copies and advances by
FixedWidth(type) ==
    IF type = H2GIS_TYPE_INT THEN 4
    ELSE IF type = H2GIS_TYPE_LONG THEN 8
    ELSE IF type = H2GIS_TYPE_FLOAT THEN 4
    ELSE IF type = H2GIS_TYPE_DOUBLE THEN 8
    ELSE 1

FixedTypes == {H2GIS_TYPE_INT, H2GIS_TYPE_LONG, H2GIS_TYPE_FLOAT,
               H2GIS_TYPE_DOUBLE, H2GIS_TYPE_BOOL}

\* what a decode produces for one column: the value, the advance of the read
\* pointer, and whether the process goes on
Produced(val, adv) == [val |-> val, adv |-> adv, ok |-> TRUE]
NoValue   == <<"none">>
Undefined == <<"undefined">>
Crash     == [val |-> Undefined, adv |-> 0, ok |-> FALSE]

\* the INT / LONG / DOUBLE / FLOAT / BOOL branches
DecodeFixed(type, data, p, junk) ==
    LET w == FixedWidth(type)
        b == Bytes(data, p, w, junk) IN
    Produced(IF type = H2GIS_TYPE_INT THEN Int32Of(b)
             ELSE IF type = H2GIS_TYPE_BOOL THEN Int8Of(b)
             ELSE DigitsOf(b),
             w)

\* the STRING branch
DecodeString(data, p, junk) ==
    LET len == Int32Of(Bytes(data, p, 4, junk)) IN
    Produced(IF len > 0 THEN Bytes(data, p + 4, len, junk) ELSE NoValue, 4 + len)

\* a variant of ClearSridFlag that leaves the shape type as read
KeepSridFlag(wkbType) == wkbType

\* wkbType & ~SRID_FLAG, on the digits of a shape type that has the bit set
ClearSridFlag(wkbType) ==
    <<wkbType[1] - 32, wkbType[2], wkbType[3], wkbType[4]>>

\* offset of the geometry data in an extended value (memcpy from ptr + 9)
SridSkip == 9

\* the GEOM branch.  With the SRID flag set and len < 9 the code builds a
\* vector of len - 4 bytes, writes 5 bytes into it and copies len - 9 bytes
\* (a negative count): undefined behaviour, which either brings the process
\* down (ub = "crash") or goes on with an undefined value (ub = "garbage").
DecodeGeom(data, p, junk, ub) ==
    LET len == Int32Of(Bytes(data, p, 4, junk))
        q   == p + 4
        byteOrder == ByteAt(data, q, 0, junk)
        hdr == Bytes(data, q + 1, 4, junk)
        wkbType == IF byteOrder = 1 THEN Reverse(hdr) ELSE hdr
        flagged == (wkbType[1] \div 32) % 2 = 1
        newType == ClearSridFlag(wkbType)
    IN IF len <= 0
       THEN Produced(NoValue, 4 + len)
       ELSE IF ~flagged
       THEN Produced(Bytes(data, q, len, junk), 4 + len)
       ELSE IF len < 9
       THEN IF ub = "crash" THEN Crash ELSE Produced(Undefined, 4 + len)
       ELSE Produced(<<byteOrder>>
                        \o (IF byteOrder = 1 THEN Reverse(newType) ELSE newType)
                        \o Bytes(data, q + SridSkip, len - 9, junk),
                     4 + len)

\* a variant of Skipped that steps over the value as a length-prefixed one
\* would be (the else branch of OGRH2GISResultLayer::GetNextFeature)
SkippedOver(data, p, junk) ==
    LET len == Int32Of(Bytes(data, p, 4, junk)) IN
    Produced(NoValue, 4 + (IF len > 0 THEN len ELSE 0))

\* a column whose tag no branch of the if-chain names (DATE, OTHER): the loop
\* goes to the next column with the read pointer where it was
Skipped(data, p, junk) == Produced(NoValue, 0)

\* the branch of the column loop taken for a column of this type
DecodeValue(type, data, p, junk, ub) ==
    IF type = H2GIS_TYPE_GEOM THEN DecodeGeom(data, p, junk, ub)
    ELSE IF type = H2GIS_TYPE_STRING THEN DecodeString(data, p, junk)
    ELSE IF type \in FixedTypes THEN DecodeFixed(type, data, p, junk)
    ELSE Skipped(data, p, junk)

\* the destination of a column's value: the FID branches at the head of the
\* column loop take a LONG or INT column named m_osFIDCol, or column 1 of type
\* LONG when m_osFIDCol is empty (fidCol = 0)
IsFidColumn(iCol, type, fidCol) ==
    \/ fidCol = iCol /\ type \in {H2GIS_TYPE_LONG, H2GIS_TYPE_INT}
    \/ fidCol = 0 /\ iCol = 1 /\ type = H2GIS_TYPE_LONG

\* iGeom when the column loop reaches column iCol: the geometry columns
\* before it (every GEOM branch ends with iGeom++)
GeomIndex(iCol) ==
    Cardinality({j \in 1 .. iCol - 1 : batch.cols[j].type = H2GIS_TYPE_GEOM})

\* the types whose branch of the column loop ends with iField++
FieldTypes == FixedTypes \cup {H2GIS_TYPE_STRING}

\* iField when the column loop reaches column iCol: the columns before it
\* that went through one of those branches (the FID branches `continue`)
FieldIndex(iCol) ==
    Cardinality({j \in 1 .. iCol - 1 :
                   /\ batch.cols[j].type \in FieldTypes
                   /\ ~IsFidColumn(j, batch.cols[j].type, batch.fidCol)})

\* the columns the constructor adds an attribute field for, in column order:
\* every column of the table that is no geometry column and is not named
\* m_osFIDCol (with no FID column, column 1 of the result is _ROWID_)
FieldColumns ==
    {i \in DOMAIN batch.cols :
        /\ batch.cols[i].type # H2GIS_TYPE_GEOM
        /\ i # batch.fidCol
        /\ ~(batch.fidCol = 0 /\ i = 1)}

\* m_poFeatureDefn->GetFieldCount()
GetFieldCount == Cardinality(FieldColumns)

\* one pass of the column loop for column iCol
DecodeColumn(iCol, junk, ub) ==
    LET c == batch.cols[iCol]
        p == dec.m_columnValues[iCol]
        fid == IsFidColumn(iCol, c.type, batch.fidCol)
        out == IF fid THEN DecodeFixed(c.type, c.data, p, junk)
               ELSE DecodeValue(c.type, c.data, p, junk, ub)
    IN [val |-> out.val, adv |-> out.adv, ok |-> out.ok,
        dest |-> IF fid THEN "fid"
                 ELSE IF c.type = H2GIS_TYPE_GEOM THEN "geometry" ELSE "field",
        slot |-> IF c.type = H2GIS_TYPE_GEOM THEN GeomIndex(iCol)
                 ELSE FieldIndex(iCol)]

\* ---- the buffers the decode is run on ----------------------------------------


Seqs(S, n) == UNION {[1 .. k -> S] : k \in 0 .. n}

IntVals    == {-2, 258, (-2147483647) - 1}
LongVals   == {<<0, 0, 0, 0, 0, 0, 1, 2>>,
               <<255, 255, 255, 255, 255, 255, 255, 254>>}
FloatVals  == {<<63, 128, 0, 0>>, <<192, 73, 15, 219>>}
DoubleVals == {<<63, 240, 0, 0, 0, 0, 0, 0>>,
               <<192, 9, 33, 251, 84, 68, 45, 24>>}
BoolVals   == {0, 1}
StringVals == {<<>>, <<65>>, <<195, 169>>}

FixedVals(type) ==
    IF type = H2GIS_TYPE_INT THEN IntVals
    ELSE IF type = H2GIS_TYPE_LONG THEN LongVals
    ELSE IF type = H2GIS_TYPE_FLOAT THEN FloatVals
    ELSE IF type = H2GIS_TYPE_DOUBLE THEN DoubleVals
    ELSE BoolVals

\* a fixed-width value as the engine lays it out
EncFixed(type, v) ==
    IF type = H2GIS_TYPE_INT THEN EncInt32(v)
    ELSE IF type = H2GIS_TYPE_BOOL THEN <<v>>
    ELSE EncDigits(v)

\* canonical geometries: order marker, shape type without bit 0x20000000 in
\* that byte order, payload
ShapeTypes   == {<<0, 0, 0, 1>>, <<128, 0, 0, 2>>, <<223, 255, 255, 255>>}
PayloadBytes == {7, 32}
Canonical ==
    {<<o>> \o (IF o = 1 THEN Reverse(t) ELSE t) \o pl :
        o \in {0, 1}, t \in ShapeTypes, pl \in Seqs(PayloadBytes, MaxPayload)}

\* identifiers S > 0, as digits
Srids == {<<0, 0, 16, 230>>, <<32, 0, 0, 1>>}

\* values too short to hold what their flag announces, and the empty value
Truncated == {<<1, 1, 0, 0, 32, 230, 16, 0>>, <<0, 32, 0, 0, 1>>, <<1, 1, 0>>}

GeomVals ==
    {[kind |-> "canonical", G |-> G, wire |-> G] : G \in Canonical}
    \cup {[kind |-> "extended", G |-> G, wire |-> ExtendGeom(G, S)] :
            G \in Canonical, S \in Srids}
    \cup {[kind |-> "truncated", G |-> <<>>, wire |-> w] : w \in Truncated}
    \cup {[kind |-> "empty", G |-> <<>>, wire |-> <<>>]}

Point == <<1, 1, 0, 0, 0, 7>>
GeomFill == {[kind |-> "canonical", G |-> Point, wire |-> Point],
             [kind |-> "extended", G |-> Point,
              wire |-> ExtendGeom(Point, <<0, 0, 16, 230>>)]}

Rows == 1 .. CodecRows

FixedColumn(t, vs) ==
    [type |-> t, vals |-> vs,
     data |-> Flatten([r \in Rows |-> EncFixed(t, vs[r])])]

FixedColumns ==
    UNION {{FixedColumn(t, vs) : vs \in [Rows -> FixedVals(t)]} : t \in FixedTypes}

StringColumns ==
    {[type |-> H2GIS_TYPE_STRING, vals |-> vs,
      data |-> Flatten([r \in Rows |-> EncVar(vs[r])])] :
        vs \in [Rows -> StringVals]}

\* geometry columns: any value in one row, a point in the others
GeomColumn(vs) ==
    [type |-> H2GIS_TYPE_GEOM, vals |-> vs,
     data |-> Flatten([r \in Rows |-> EncVar(vs[r].wire)])]

GeomColumns ==
    {GeomColumn([s \in Rows |-> IF s = r THEN g ELSE fill[s]]) :
        r \in Rows, g \in GeomVals, fill \in [Rows -> GeomFill]}

\* columns of the tags that carry a length-prefixed value and are neither
\* text nor geometry
OpaqueVals == {<<>>, <<1, 2>>}
OpaqueColumns ==
    {[type |-> t, vals |-> vs,
      data |-> Flatten([r \in Rows |-> EncVar(vs[r])])] :
        t \in {H2GIS_TYPE_DATE, H2GIS_TYPE_OTHER}, vs \in [Rows -> OpaqueVals]}

Columns == FixedColumns \cup StringColumns \cup GeomColumns \cup OpaqueColumns

\* the second column of a two-column batch
Alternate(a, b) == [r \in Rows |-> IF r % 2 = 1 THEN a ELSE b]
SecondColumns ==
    {FixedColumn(H2GIS_TYPE_INT, Alternate(258, -2)),
     FixedColumn(H2GIS_TYPE_DOUBLE,
                 Alternate(<<63, 240, 0, 0, 0, 0, 0, 0>>,
                           <<192, 9, 33, 251, 84, 68, 45, 24>>))}

\* the two geometry columns of a table that has two: a point, absent in
\* some rows, in the first, another point in extended form in the second
OtherPoint == <<1, 1, 0, 0, 0, 32>>
FirstGeomColumns ==
    {GeomColumn([r \in Rows |-> IF r \in absent
                                 THEN [kind |-> "empty", G |-> <<>>, wire |-> <<>>]
                                 ELSE [kind |-> "canonical", G |-> Point,
                                       wire |-> Point]]) :
        absent \in {{}, {1}, Rows}}
SecondGeomColumn ==
    GeomColumn([r \in Rows |->
                  [kind |-> "extended", G |-> OtherPoint,
                   wire |-> ExtendGeom(OtherPoint, <<0, 0, 16, 230>>)]])

\* the batches of the layers of one-geometry and no-geometry tables: one or
\* two columns, with or without a configured FID column; geomCol is the
\* column the layer is bound to (m_osGeomCol, 0 when the layer is not spatial)
PlainBatches ==
    {[rowCount |-> CodecRows, fidCol |-> f, cols |-> cs,
      geomCol |-> IF cs[1].type = H2GIS_TYPE_GEOM THEN 1 ELSE 0] :
        f \in {0, 1},
        cs \in {<<c>> : c \in Columns}
                \cup {<<c, d>> : c \in Columns, d \in SecondColumns}}

\* the batches of the two layers of a table with two geometry columns
\* (both layers run SELECT * on the table)
TwoGeomBatches ==
    {[rowCount |-> CodecRows, fidCol |-> 0, cols |-> <<c, SecondGeomColumn>>,
      geomCol |-> g] : c \in FirstGeomColumns, g \in {1, 2}}

Batches == PlainBatches \cup TwoGeomBatches

\* what lies past the end of a column's data
JunkBytes == {0, 32}
\* what undefined behaviour comes to
UBOutcomes == {"crash", "garbage"}

\* the read pointers as FetchNextBatch leaves them: at the start of row 0
DecodeStart(b) ==
    [m_columnValues |-> [i \in DOMAIN b.cols |-> 0],
     prev |-> [i \in DOMAIN b.cols |-> 0],
     m_iNextRowInBatch |-> 0,
     poFeature |-> <<>>,
     running |-> TRUE]

CodecInit ==
    /\ BridgeInit
    /\ LayerIdle
    /\ DataSourceIdle
    /\ batch \in Batches
    /\ dec = DecodeStart(batch)

\* GetNextFeature on a batch that still has rows: the column loop
DecodeRow ==
    /\ dec.running
    /\ dec.m_iNextRowInBatch < batch.rowCount
    /\ \E junk \in JunkBytes, ub \in UBOutcomes :
         LET out == [i \in DOMAIN batch.cols |-> DecodeColumn(i, junk, ub)] IN
         dec' = IF \A i \in DOMAIN out : out[i].ok
                THEN [m_columnValues |->
                         [i \in DOMAIN out |-> dec.m_columnValues[i] + out[i].adv],
                      prev |-> dec.m_columnValues,
                      m_iNextRowInBatch |-> dec.m_iNextRowInBatch + 1,
                      poFeature |->
                         [i \in DOMAIN out |->
                            [val |-> out[i].val, dest |-> out[i].dest,
                             slot |-> out[i].slot]],
                      running |-> TRUE]
                ELSE [dec EXCEPT !.running = FALSE]
    /\ UNCHANGED <<batch, bridgeVars, lvars, ds>>

CodecNext == DecodeRow

CodecSpec == CodecInit /\ [][CodecNext]_vars

\* ---- a result buffer as bytes, and its parse ----------------------------------
\*
\* A buffer is colCount (4 bytes), rowCount (4), one 8-byte offset per column,
\* then at each offset a column block: nameLen (4), the name, the type tag (4),
\* the length of the data (4), the data.  FetchNextBatch and GetFeature parse
\* it with the same statements.

\* the name the engine gives column i
ColName(i) == <<64 + i>>

\* a column block as the engine lays it out
EncColumn(name, type, data) ==
    EncInt32(Len(name)) \o name \o EncInt32(type) \o EncInt32(Len(data)) \o data

\* an offset as 8 bytes, least significant first
EncInt64(v) == EncInt32(v) \o <<0, 0, 0, 0>>

RECURSIVE EncOffsets(_, _)
EncOffsets(blocks, at) ==
    IF blocks = <<>> THEN <<>>
    ELSE EncInt64(at) \o EncOffsets(Tail(blocks), at + Len(Head(blocks)))

\* the buffer the engine builds for rowCount rows of the columns cs
\* (cs[i] = [name, type, data])
EncBuffer(rowCount, cs) ==
    LET blocks == [i \in DOMAIN cs |->
                     EncColumn(cs[i].name, cs[i].type, cs[i].data)]
    IN EncInt32(Len(cs)) \o EncInt32(rowCount)
         \o EncOffsets(blocks, 8 + 8 * Len(cs)) \o Flatten(blocks)

\* a read of n bytes at p lies inside the buffer
Inside(buf, p, n) == p >= 0 /\ p + n <= Len(buf)

\* memcpy of 8 bytes into an int64_t used as an offset: offsets that do not
\* fit 31 bits lead far outside any buffer
FarAway == 1000000
OffsetOf(b) ==
    IF b[5] = 0 /\ b[6] = 0 /\ b[7] = 0 /\ b[8] = 0 /\ b[4] < 128
    THEN Int32Of(<<b[1], b[2], b[3], b[4]>>)
    ELSE FarAway

\* lengths are followed up to MaxRead bytes (longer reads leave every
\* buffer of the model and are recorded as such)
Clip(n) == IF n > MaxRead THEN MaxRead ELSE n

\* the header of column iCol (counted from 0): the offset entry, then the
\* block it points at.  inside: every byte read lay inside the buffer;
\* thrown: std::string was constructed with a negative length.
ColumnHeader(buf, iCol, junk) ==
    LET at      == 8 + 8 * iCol
        colPtr  == OffsetOf(Bytes(buf, at, 8, junk))
        nameLen == Int32Of(Bytes(buf, colPtr, 4, junk))
        nlen    == IF nameLen < 0 THEN 0 ELSE nameLen
        p1      == colPtr + 4 + nlen
    IN [name    |-> Bytes(buf, colPtr + 4, Clip(nlen), junk),
        type    |-> Int32Of(Bytes(buf, p1, 4, junk)),
        dataLen |-> Int32Of(Bytes(buf, p1 + 4, 4, junk)),
        colPtr  |-> p1 + 8,
        thrown  |-> nameLen < 0,
        inside  |-> /\ Inside(buf, at, 8)
                    /\ Inside(buf, colPtr, 4)
                    /\ Inside(buf, colPtr + 4, nlen + 8)]

\* the columns the parse loop visits: colCount of them, as far as the model
\* follows (a column count that large has left the buffer long before)
ParsedColumns(colCount) ==
    0 .. ((IF colCount > MaxParsed THEN MaxParsed ELSE colCount) - 1)

\* the first 8 bytes: colCount and rowCount
BufferHeader(buf, junk) ==
    [colCount |-> Int32Of(Bytes(buf, 0, 4, junk)),
     rowCount |-> Int32Of(Bytes(buf, 4, 4, junk)),
     inside   |-> Inside(buf, 0, 8)]

\* ---- GetFeature: the single-row lookup ------------------------------------------

\* the bytes of row r of a column, as the engine lays them out
RowBytes(c, r) ==
    IF c.type \in FixedTypes THEN EncFixed(c.type, c.vals[r])
    ELSE IF c.type = H2GIS_TYPE_GEOM THEN EncVar(c.vals[r].wire)
    ELSE EncVar(c.vals[r])

\* m_osFIDCol of the layer reading table b ("" when none is configured)
FidColName(b) == IF b.fidCol = 0 THEN <<>> ELSE ColName(b.fidCol)

\* the columns SELECT * delivers: those of the table, without the _ROWID_
\* column that GetNextFeature's query asks for when no FID column is configured
Selected(b) ==
    {i \in DOMAIN b.cols : ~(b.fidCol = 0 /\ i = 1 /\ b.cols[i].type = H2GIS_TYPE_LONG)}

RECURSIVE Ascending(_)
Ascending(S) ==
    IF S = {} THEN <<>>
    ELSE LET m == CHOOSE x \in S : \A y \in S : x <= y
         IN <<m>> \o Ascending(S \ {m})

\* h2gis_fetch_one on "SELECT * FROM t WHERE fid = nFID": the buffer holding
\* row r of the table, or no row when the key matches none (r = 0)
FetchOne(b, r) ==
    LET idx == Ascending(Selected(b)) IN
    EncBuffer(IF r = 0 THEN 0 ELSE 1,
              [k \in DOMAIN idx |->
                 [name |-> ColName(idx[k]),
                  type |-> b.cols[idx[k]].type,
                  data |-> IF r = 0 THEN <<>> ELSE RowBytes(b.cols[idx[k]], r)]])

\* a variant of NoRows that lets a zero-row buffer through
NoRowsNegative(rowCount) == rowCount < 0

\* the test "if (rowCount == 0)" of GetFeature
NoRows(rowCount) == rowCount = 0

\* the fields of the layer's definition: one per column of the table that is
\* neither a geometry nor the FID column
FieldNames(b) ==
    {ColName(i) : i \in {j \in Selected(b) :
                           /\ b.cols[j].type # H2GIS_TYPE_GEOM
                           /\ j # b.fidCol}}

\* the body of GetFeature's column loop for one column: what it hands on,
\* and whether its reads stayed inside the buffer
LookupColumn(buf, iCol, fidName, fields, junk) ==
    LET hd   == ColumnHeader(buf, iCol, junk)
        p    == hd.colPtr
        len  == Int32Of(Bytes(buf, p, 4, junk))
        none == [kind |-> "none", val |-> NoValue, thrown |-> hd.thrown,
                 inside |-> hd.inside]
    IN IF hd.thrown THEN none
       ELSE IF fidName # <<>> /\ hd.name = fidName THEN none
       ELSE IF hd.type = H2GIS_TYPE_GEOM
       THEN IF hd.dataLen <= 0 THEN none
            ELSE IF len <= 0
            THEN [none EXCEPT !.inside = hd.inside /\ Inside(buf, p, 4)]
            ELSE [kind |-> "geometry",
                  val |-> Bytes(buf, p + 4, Clip(len), junk),
                  thrown |-> FALSE,
                  inside |-> hd.inside /\ Inside(buf, p, 4 + len)]
       ELSE IF hd.name \notin fields THEN none
       ELSE IF hd.type \in {H2GIS_TYPE_INT, H2GIS_TYPE_LONG, H2GIS_TYPE_DOUBLE,
                            H2GIS_TYPE_BOOL}
       THEN [kind |-> "field",
             val |-> DecodeFixed(hd.type, buf, p, junk).val,
             thrown |-> FALSE,
             inside |-> hd.inside /\ Inside(buf, p, FixedWidth(hd.type))]
       ELSE IF hd.type = H2GIS_TYPE_STRING
       THEN IF hd.dataLen <= 0 THEN none
            ELSE IF len < 0
            THEN [none EXCEPT !.inside = hd.inside /\ Inside(buf, p, 4)]
            ELSE [kind |-> "field",
                  val |-> Bytes(buf, p + 4, Clip(len), junk),
                  thrown |-> FALSE,
                  inside |-> hd.inside /\ Inside(buf, p, 4 + len)]
       ELSE none

\* GetFeature once h2gis_fetch_one has handed it the buffer buf
\*   ret       "nullptr" or "feature"
\*   cols      what the column loop handed on, column by column
\*   inside    every byte read lay inside the buffer
\*   thrown    a C++ exception left the function (negative vector or string size)
GetFeature(buf, fidName, fields, junk) ==
    LET hd == BufferHeader(buf, junk)
        none == [ret |-> "nullptr", cols |-> <<>>, inside |-> hd.inside,
                 thrown |-> FALSE]
    IN IF NoRows(hd.rowCount) THEN none
       ELSE IF hd.colCount < 0 THEN [none EXCEPT !.thrown = TRUE]
       ELSE LET n == Cardinality(ParsedColumns(hd.colCount))
                cs == [i \in 1 .. n |->
                         LookupColumn(buf, i - 1, fidName, fields, junk)]
            IN [ret    |-> "feature",
                cols   |-> [i \in 1 .. n |-> [kind |-> cs[i].kind, val |-> cs[i].val]],
                inside |-> /\ hd.inside
                           /\ hd.colCount <= MaxParsed
                           /\ \A i \in 1 .. n : cs[i].inside,
                thrown |-> \E i \in 1 .. n : cs[i].thrown]

\* the parse of FetchNextBatch once h2gis_fetch_batch has handed it buf
\*   ret             what FetchNextBatch returns
\*   m_columnValues  column -> index in buf its read pointer is set to
\*   m_columnTypes   column -> type tag read
FetchNextBatchParse(buf, junk) ==
    LET hd == BufferHeader(buf, junk)
        none == [ret |-> FALSE, m_nBatchRows |-> hd.rowCount,
                 m_columnValues |-> <<>>, m_columnTypes |-> <<>>,
                 inside |-> hd.inside, thrown |-> FALSE]
    IN IF hd.rowCount <= 0 THEN none
       ELSE IF hd.colCount < 0 THEN [none EXCEPT !.thrown = TRUE]
       ELSE LET n == Cardinality(ParsedColumns(hd.colCount))
                cs == [i \in 1 .. n |-> ColumnHeader(buf, i - 1, junk)]
            IN [ret |-> TRUE,
                m_nBatchRows |-> hd.rowCount,
                m_columnValues |-> [i \in 1 .. n |-> cs[i].colPtr],
                m_columnTypes |-> [i \in 1 .. n |-> cs[i].type],
                inside |-> /\ hd.inside
                           /\ hd.colCount <= MaxParsed
                           /\ \A i \in 1 .. n : cs[i].inside,
                thrown |-> \E i \in 1 .. n : cs[i].thrown]

\* the buffer h2gis_fetch_batch builds for the whole table
FetchBatch(b) ==
    EncBuffer(b.rowCount,
              [i \in DOMAIN b.cols |->
                 [name |-> ColName(i), type |-> b.cols[i].type,
                  data |-> b.cols[i].data]])

\* ---- buffers that are not well-formed ------------------------------------------

\* sizes a buffer is cut to
CutPoints == {4, 12, 30}

Damages ==
    {[kind |-> "none", at |-> 0], [kind |-> "colCount", at |-> 0]}
    \cup {[kind |-> "cut", at |-> n] : n \in CutPoints}

\* the buffer as handed over: whole, cut to `at` bytes, or with a column
\* count whose top byte is 0xFF
Damaged(buf, d) ==
    IF d.kind = "cut"
    THEN SubSeq(buf, 1, IF d.at < Len(buf) THEN d.at ELSE Len(buf))
    ELSE IF d.kind = "colCount"
    THEN [i \in 1 .. Len(buf) |-> IF i = 4 THEN 255 ELSE buf[i]]
    ELSE buf

\* ---- the buffer parse as a state machine ---------------------------------------
\* (one buffer, handed to one call)

NoLookup == [op |-> "none"]

LookupInit ==
    /\ BridgeInit
    /\ LayerIdle
    /\ DataSourceIdle
    /\ batch \in Batches
    /\ dec = NoLookup

\* GetFeature(nFID), the key matching row r of the table (none when r = 0)
CallGetFeature ==
    /\ dec = NoLookup
    /\ \E r \in 0 .. batch.rowCount, d \in Damages, junk \in JunkBytes :
         dec' = [op |-> "GetFeature", row |-> r, damage |-> d.kind,
                 out |-> GetFeature(Damaged(FetchOne(batch, r), d),
                                    FidColName(batch), FieldNames(batch), junk)]
    /\ UNCHANGED <<batch, bridgeVars, lvars, ds>>

\* FetchNextBatch on the buffer of the whole table
CallFetchNextBatch ==
    /\ dec = NoLookup
    /\ \E d \in Damages, junk \in JunkBytes :
         dec' = [op |-> "FetchNextBatch", row |-> 0, damage |-> d.kind,
                 out |-> FetchNextBatchParse(Damaged(FetchBatch(batch), d), junk)]
    /\ UNCHANGED <<batch, bridgeVars, lvars, ds>>

LookupNext ==
    \/ CallGetFeature
    \/ CallFetchNextBatch

LookupSpec == LookupInit /\ [][LookupNext]_vars

\* ---- OGRH2GISDataSource::Open: the connection attempts ------------------------

\* user names and passwords given by the caller (the empty string: not given)
UserNames == {"", "sa", "bob"}
Passwords == {"", "pw"}

\* what h2gis_connect hands back: an error, a null handle, or a handle
ConnectResults == {-2, -1, 0, 1}

\* finalUser / finalPass: open option over URI parameter over environment
Preferred(opt, uri, env) ==
    IF opt # "" THEN opt ELSE IF uri # "" THEN uri ELSE env

\* a variant of Candidates that tries the built-in credentials first
CandidatesDefaultsFirst(finalUser, finalPass) ==
    <<[u |-> "", p |-> ""], [u |-> "sa", p |-> ""], [u |-> "sa", p |-> "sa"]>>
    \o (IF finalUser # "" \/ finalPass # ""
        THEN <<[u |-> finalUser, p |-> finalPass]>>
        ELSE <<>>)

\* the candidates vector, in the order it is filled
Candidates(finalUser, finalPass) ==
    (IF finalUser # "" \/ finalPass # ""
     THEN <<[u |-> finalUser, p |-> finalPass]>>
     ELSE <<>>)
    \o <<[u |-> "", p |-> ""], [u |-> "sa", p |-> ""], [u |-> "sa", p |-> "sa"]>>

\* a data source as its constructor leaves it. in, tried and rets are history:
\* the arguments of Open, the credentials passed to h2gis_connect and what
\* each call handed back.
NewDataSource ==
    [pc |-> "new", m_hConnection |-> -1, m_nLayers |-> 0,
     candidates |-> <<>>, i |-> 0, ret |-> "none",
     in |-> <<>>, tried |-> <<>>, rets |-> <<>>]

OpenInit ==
    /\ BridgeInit
    /\ LayerIdle
    /\ CodecIdle
    /\ ds = NewDataSource

\* Open up to the connection loop: the file name and thread tests, the URI
\* parse (its outcome is uriUser, uriPass) and the candidates
OpenBegin ==
    /\ ds.pc = "new"
    /\ \E named \in BOOLEAN, thread \in BOOLEAN,
          optUser \in UserNames, uriUser \in UserNames, envUser \in UserNames,
          optPass \in Passwords, uriPass \in Passwords, envPass \in Passwords :
         LET finalUser == Preferred(optUser, uriUser, envUser)
             finalPass == Preferred(optPass, uriPass, envPass)
             args == [named |-> named, thread |-> thread,
                      optUser |-> optUser, uriUser |-> uriUser,
                      envUser |-> envUser, optPass |-> optPass,
                      uriPass |-> uriPass, envPass |-> envPass] IN
         ds' = IF ~named \/ ~thread
               THEN [ds EXCEPT !.pc = "done", !.ret = "FALSE", !.in = args]
               ELSE [ds EXCEPT !.pc = "loop", !.i = 1, !.in = args,
                               !.candidates = Candidates(finalUser, finalPass)]
    /\ UNCHANGED <<bridgeVars, lvars, cvars>>

\* one pass of the connection loop
OpenConnect ==
    /\ ds.pc = "loop"
    /\ \E conn \in ConnectResults :
         LET hist == [ds EXCEPT !.tried = Append(@, ds.candidates[ds.i]),
                                !.rets = Append(@, conn)] IN
         ds' = IF conn # 0 /\ conn # -1
               THEN [hist EXCEPT !.m_hConnection = conn, !.pc = "after"]
               ELSE [hist EXCEPT !.i = @ + 1,
                                 !.pc = IF ds.i + 1 > Len(ds.candidates)
                                        THEN "after" ELSE "loop"]
    /\ UNCHANGED <<bridgeVars, lvars, cvars>>

\* Open after the loop: the failure return, or h2gis_load and the layers of
\* the tables the metadata query lists (none when the query fails)
OpenEnd ==
    /\ ds.pc = "after"
    /\ \E tables \in 0 .. MaxTables :
         ds' = IF ds.m_hConnection < 0
               THEN [ds EXCEPT !.pc = "done", !.ret = "FALSE"]
               ELSE [ds EXCEPT !.pc = "done", !.ret = "TRUE",
                               !.m_nLayers = tables]
    /\ UNCHANGED <<bridgeVars, lvars, cvars>>

OpenNext ==
    \/ OpenBegin
    \/ OpenConnect
    \/ OpenEnd

OpenSpec == OpenInit /\ [][OpenNext]_vars

\* ---- the system -------------------------------------------------------------

\* the bridge on its own: no layer is open and none is touched
Init == BridgeInit /\ LayerIdle /\ CodecIdle /\ DataSourceIdle

Next ==
    \/ \E c \in Callers : CallInit(c)
    \/ \E c \in Callers : CallConnect(c)
    \/ \E c \in Callers : InitLock(c)
    \/ \E c \in Callers : InitPoll(c)
    \/ \E c \in Callers : InitAfter(c)
    \/ \E c \in Callers : InitJoinCall(c)
    \/ \E c \in Callers : InitJoinWait(c)
    \/ \E c \in Callers : InitFail(c)
    \/ \E c \in Callers : CallShutdown(c)
    \/ \E c \in Callers : ReleaseShutdown(c)
    \/ \E c \in Callers : SdJoinCall(c)
    \/ \E c \in Callers : SdJoinWait(c)
    \/ \E c \in Callers : SdFreeTest(c)
    \/ \E c \in Callers : SdFree(c)
    \/ \E c \in Callers : SdClear(c)
    \/ \E c \in Callers : CallAddRef(c)
    \/ \E c \in Callers : CallRelease(c)
    \/ \E c \in Callers : CallExecute(c)
    \/ \E c \in Callers : WrapPush(c)
    \/ \E c \in Callers : WrapGet(c)
    \/ \E w \in Workers : WLoad(w)
    \/ \E w \in Workers : WSymbols(w)
    \/ \E w \in Workers : WIsolate(w)
    \/ \E w \in Workers : WLoopHead(w)
    \/ \E w \in Workers : WWait(w)
    \/ \E w \in Workers : WPark(w)
    \/ \E w \in Workers : WRun(w)
    \/ \E w \in Workers : WCleanup(w)

Spec == Init /\ [][Next]_vars

\* the sessions: the bridge as a first h2gis_wrapper_init that succeeded
\* leaves it (caller 1 made the call, worker 1 has stored g_initialized and
\* is at the head of its loop), from where sessions take and give back
\* references; opsStarted counts the calls started from this state on
SessionInit ==
    /\ g_initialized = TRUE
    /\ g_shutdown = FALSE
    /\ g_h2gis_handle = TRUE
    /\ fp_h2gis = TRUE
    /\ g_worker_thread_handle = 1
    /\ g_task_queue = <<>>
    /\ g_refcount = 0
    /\ g_init_mutex = 0
    /\ wait_count = 0
    /\ pc = [c \in Callers |-> "idle"]
    /\ op = [c \in Callers |-> IF c = 1 THEN "init" ELSE "none"]
    /\ jtarget = [c \in Callers |-> 0]
    /\ mytask = [c \in Callers |-> 0]
    /\ wpc = [w \in Workers |-> IF w = 1 THEN "loop_head" ELSE "unborn"]
    /\ wtask = [w \in Workers |-> 0]
    /\ joiner = [w \in Workers |-> 0]
    /\ h = [ nSpawned   |-> 1,
             nextTask   |-> 1,
             execLog    |-> <<>>,
             fulfilled  |-> {},
             raised     |-> {},
             reraised   |-> {},
             owner      |-> <<>>,
             libRefs    |-> 1,
             libFrees   |-> 0,
             isolates   |-> 1,
             joinCalls  |-> [w \in Workers |-> 0],
             sdRuns     |-> [w \in Workers |-> 0],
             opsStarted |-> 0,
             initRet    |-> [c \in Callers |-> IF c = 1 THEN "ok" ELSE "none"],
             initWorker |-> [c \in Callers |-> IF c = 1 THEN 1 ELSE 0],
             initFailed |-> FALSE,
             failedLast |-> FALSE,
             afterFail  |-> [c \in Callers |-> FALSE],
             afterTerm  |-> [c \in Callers |-> FALSE],
             terminated |-> FALSE,
             sdSnap     |-> [c \in Callers |-> 0],
             sdDone     |-> [c \in Callers |-> -1] ]
    /\ LayerIdle /\ CodecIdle /\ DataSourceIdle

SessionNext ==
    \/ \E c \in Callers : CallAddRef(c)
    \/ \E c \in Callers : CallRelease(c)
    \/ \E c \in Callers : ReleaseShutdown(c)
    \/ \E c \in Callers : SdJoinCall(c)
    \/ \E c \in Callers : SdJoinWait(c)
    \/ \E c \in Callers : SdFreeTest(c)
    \/ \E c \in Callers : SdFree(c)
    \/ \E c \in Callers : SdClear(c)
    \/ \E w \in Workers : WLoopHead(w)
    \/ \E w \in Workers : WWait(w)
    \/ \E w \in Workers : WPark(w)
    \/ \E w \in Workers : WCleanup(w)

SessionSpec == SessionInit /\ [][SessionNext]_vars

\* one caller thread issuing its API calls one after the other (the worker
\* threads still run concurrently with it)
NextSeq ==
    \/ CallInit(1)
    \/ CallConnect(1)
    \/ InitLock(1)
    \/ InitPoll(1)
    \/ InitAfter(1)
    \/ InitJoinCall(1)
    \/ InitJoinWait(1)
    \/ InitFail(1)
    \/ CallShutdown(1)
    \/ ReleaseShutdown(1)
    \/ SdJoinCall(1)
    \/ SdJoinWait(1)
    \/ SdFreeTest(1)
    \/ SdFree(1)
    \/ SdClear(1)
    \/ CallAddRef(1)
    \/ CallRelease(1)
    \/ CallExecute(1)
    \/ WrapPush(1)
    \/ WrapGet(1)
    \/ \E w \in Workers : WLoad(w)
    \/ \E w \in Workers : WSymbols(w)
    \/ \E w \in Workers : WIsolate(w)
    \/ \E w \in Workers : WLoopHead(w)
    \/ \E w \in Workers : WWait(w)
    \/ \E w \in Workers : WPark(w)
    \/ \E w \in Workers : WRun(w)
    \/ \E w \in Workers : WCleanup(w)

SeqSpec == Init /\ [][NextSeq]_vars

\* Fair scheduling: a thread that can take a step of the call it is in (or
\* of worker_thread_func) eventually takes one.  Starting a new API call is
\* up to the application and carries no fairness.
CallerStep(c) ==
    /\ \/ InitLock(c) \/ InitPoll(c) \/ InitAfter(c) \/ InitJoinCall(c)
       \/ InitJoinWait(c) \/ InitFail(c) \/ ReleaseShutdown(c) \/ SdJoinCall(c)
       \/ SdJoinWait(c) \/ SdFreeTest(c) \/ SdFree(c) \/ SdClear(c)
       \/ WrapPush(c) \/ WrapGet(c)
    /\ Apart
WorkerStep(w) ==
    /\ \/ WLoad(w) \/ WSymbols(w) \/ WIsolate(w) \/ WLoopHead(w) \/ WWait(w)
       \/ WPark(w) \/ WRun(w) \/ WCleanup(w)
    /\ Apart

FairSpec ==
    /\ Spec
    /\ \A c \in Callers : WF_vars(CallerStep(c))
    /\ \A w \in Workers : WF_vars(WorkerStep(w))

\* the steps of worker_thread_func that are the thread's own: the task loop
\* and the cleanup.  h2gis_load_library, h2gis_get_symbol and
\* graal_create_isolate are calls into the system loader and the native
\* library, which return when those return.
WorkerLoopStep(w) ==
    /\ \/ WLoopHead(w) \/ WWait(w) \/ WPark(w) \/ WRun(w) \/ WCleanup(w)
    /\ Apart

\* one caller thread, scheduled fairly, with a worker whose start-up calls
\* may never return
SlowStartSpec ==
    /\ SeqSpec
    /\ WF_vars(CallerStep(1))
    /\ \A w \in Workers : WF_vars(WorkerLoopStep(w))

\* the same with a worker whose start-up calls always return
PromptStartSpec ==
    /\ SeqSpec
    /\ WF_vars(CallerStep(1))
    /\ \A w \in Workers : WF_vars(WorkerStep(w))

\* ---- properties -------------------------------------------------------------

\* number of times task t was executed
ExecCount(t) == Cardinality({i \in DOMAIN h.execLog : h.execLog[i].task = t})
\* the thread identities the engine calls were made on
ExecTids == {h.execLog[i].tid : i \in DOMAIN h.execLog}
\* the worker is inside an engine call
InEngine(w) == wpc[w] = "run"

\* At most one worker thread is ever waiting on g_queue_cv or running a task.
OneLoopWorker ==
    Cardinality({w \in Workers : wpc[w] \in
                   {"wait", "parking", "sleeping", "run"}}) <= 1

\* C1: thread confinement.  Every engine call is made on a worker thread,
\* never on a caller thread, and all engine calls of a run are made on one
\* and the same thread.
C1_ThreadConfinement ==
    /\ \A c \in Callers : CallerTid(c) \notin ExecTids
    /\ Cardinality(ExecTids) <= 1
    /\ ExecTids \subseteq {WorkerTid(w) : w \in Workers}

\* C1 witness: both caller threads have had a task executed.
C1_Witness ==
    /\ Len(h.execLog) >= 2
    /\ \A c \in Callers : mytask[c] \in h.fulfilled

\* C2: graceful drain.  When a shutdown that ran its sequence returns, every
\* task that had been pushed when the shutdown was requested has been
\* executed exactly once.
C2_GracefulDrain ==
    \A c \in Callers :
        \A t \in 1 .. h.sdDone[c] : ExecCount(t) = 1

\* C3: FIFO ordering.  Tasks are executed in the order in which they were
\* pushed to the queue (task ids are handed out in push order).
C3_FifoOrder ==
    \A i \in DOMAIN h.execLog : h.execLog[i].task = i

\* C3 witness: one task executed, the next one popped and running, a third
\* one still queued behind it.
C3_Witness ==
    /\ Len(h.execLog) = 1
    /\ \E w \in Workers : InEngine(w) /\ wtask[w] = 2
    /\ g_task_queue = <<3>>

\* no thread can take a further step of the call (or thread function) it is in
Quiescent ==
    /\ \A c \in Callers : ~ENABLED CallerStep(c)
    /\ \A w \in Workers : ~ENABLED WorkerStep(w)

\* C4: submit always completes.  Every task pushed by execute_on_worker is
\* executed and its promise fulfilled: once every thread has run as far as it
\* can, no pushed task is left unfulfilled (no caller is left in future.get()).
C4_SubmitCompletes ==
    Quiescent => \A t \in 1 .. (h.nextTask - 1) : t \in h.fulfilled

\* C5: the engine is only touched while the bridge is Ready.  Whenever a
\* worker is inside an engine call the library is loaded (not yet released
\* by shutdown), the entry points are bound and the isolate exists.
C5_EngineOnlyWhileReady ==
    \A w \in Workers :
        InEngine(w) => /\ h.libRefs > 0
                       /\ g_h2gis_handle
                       /\ fp_h2gis
                       /\ h.isolates >= 1

\* C6: init is idempotent.  As long as the bridge has neither failed nor been
\* shut down (g_shutdown is unset) at most one worker thread has been spawned
\* and at most one isolate created, however many init calls were made; a
\* successful init means exactly one of each; and an init call that finds the
\* bridge Ready returns 0 and changes no shared state.
C6_InitIdempotent ==
    /\ [](~g_shutdown => /\ h.nSpawned <= 1
                         /\ h.isolates <= 1
                         /\ \A c \in Callers :
                              h.initRet[c] \in {"ok", "ok_ready"}
                                 => h.nSpawned = 1 /\ h.isolates = 1)
    /\ [][\A c \in Callers :
            (g_initialized /\ op'[c] = "init"
               /\ (CallInit(c) \/ InitLock(c)))
            => /\ UNCHANGED <<globals, wvars>>
               /\ pc'[c] = "idle"
               /\ h'.initRet[c] = "ok_ready"]_vars

\* C6 witness: both callers have called init with success and no shutdown
\* was requested.
C6_Witness ==
    /\ ~g_shutdown
    /\ \A c \in Callers : h.initRet[c] \in {"ok", "ok_ready"}
    /\ \E c \in Callers : h.initRet[c] = "ok_ready"

\* C7: when init gives up because the worker did not reach Ready within the
\* polling window, it has set the shutdown flag and the worker thread it
\* spawned has ended (was joined) by the time it returns -1.
C7_GiveUpJoinsWorker ==
    \A c \in Callers :
        h.initRet[c] = "fail_timeout"
           => /\ g_shutdown
              /\ h.joinCalls[h.initWorker[c]] >= 1
              /\ wpc[h.initWorker[c]] = "exited"

\* C7 witness: an init call has given up and returned -1.
C7_Witness ==
    \E c \in Callers : h.initRet[c] = "fail_timeout"

\* C8: Failed is absorbing.  An init call made after an init has given up
\* fails immediately: it spawns no worker thread and returns -1.
C8_FailedAbsorbing ==
    [][\A c \in Callers :
          (pc[c] = "init_lock" /\ h.afterFail[c] /\ pc'[c] # "init_lock")
          => /\ h'.nSpawned = h.nSpawned
             /\ h'.initRet[c] \in FailKinds]_vars

\* C9: lifecycle.  Once a shutdown has run to its end (Terminated) the bridge
\* never reports Ready again.
C9_NoReadyAfterTerminated ==
    [][h.terminated => ~g_initialized']_vars

LoopStates == {"loop_head", "wait", "parking", "sleeping", "run"}

\* C11: failure isolation.  An exception thrown inside a task is stored in
\* that task's promise (which is thereby fulfilled) and rethrown only by the
\* future.get() of the caller that pushed the task; the step in which the
\* task throws changes no global of the bridge and leaves the worker at the
\* head of its loop; and as long as no shutdown was requested, every task
\* pushed is executed even after a task has thrown.
C11_FailureIsolation ==
    /\ [](/\ h.raised \subseteq h.fulfilled
          /\ \A x \in h.reraised :
                x.task \in h.raised /\ x.tid = CallerTid(h.owner[x.task])
          /\ (h.raised # {} /\ ~g_shutdown)
                => /\ \E w \in Workers : wpc[w] \in LoopStates
                   /\ Quiescent
                        => \A t \in 1 .. (h.nextTask - 1) : t \in h.fulfilled)
    /\ [][\A w \in Workers :
            (wpc[w] = "run" /\ wpc'[w] # "run" /\ h'.raised # h.raised)
            => /\ UNCHANGED globals
               /\ wpc'[w] = "loop_head"
               /\ wtask[w] \in h'.fulfilled]_vars

\* C11 witness: a task threw, its exception was rethrown in the caller that
\* pushed it, and a task pushed later has been executed and returned.
C11_Witness ==
    \E t \in h.raised :
        /\ [task |-> t, tid |-> CallerTid(h.owner[t])] \in h.reraised
        /\ \E u \in h.fulfilled \ h.raised : u > t

\* C12: shutdown ordering.  Once h2gis_wrapper_shutdown is past its join
\* (about to release the library, or to clear g_initialized and return) the
\* worker thread it joined has ended and no worker is in its task loop; and
\* when it clears g_initialized the library handle has been released.
C12_ShutdownOrdering ==
    \A c \in Callers :
        /\ pc[c] \in {"sd_free_test", "sd_free", "sd_clear"}
              => /\ wpc[jtarget[c]] = "exited"
                 /\ \A w \in Workers : wpc[w] \notin LoopStates
        /\ pc[c] = "sd_clear" => ~g_h2gis_handle

\* C27 (concurrent teardown): however shutdown requests (direct calls and
\* releases that drop the count to zero) interleave, no worker thread is
\* joined by more than one of them and the library is released at most once
\* per worker that loaded it; a shutdown that has returned has joined and
\* released once.
C27_ConcurrentTeardown ==
    /\ \A w \in Workers : h.sdRuns[w] <= 1
    /\ h.libFrees <= h.nSpawned
    /\ \A c \in Callers : h.sdDone[c] >= 0 => h.libFrees >= 1

\* an h2gis_wrapper_init call is running
InitRunning ==
    \E c \in Callers : pc[c] \in {"init_lock", "init_poll", "init_after",
                                   "init_join_call", "init_join_wait",
                                   "init_fail"}

\* C28 (a failed init leaves the bridge not initialized): when an
\* h2gis_wrapper_init call has returned -1, no init has succeeded since and
\* none is running, h2gis_wrapper_is_initialized reports 0.
C28_FailedInitNotInitialized ==
    (h.failedLast /\ ~InitRunning) => ~g_initialized

\* the h2gis_wrapper_init call of caller c returns 0 in this step
InitSucceeds(c) ==
    /\ h'.initRet[c] \in {"ok", "ok_ready"}
    /\ \/ pc[c] \in {"init_lock", "init_after"}
       \/ pc[c] = "idle" /\ h'.opsStarted = h.opsStarted + 1
                         /\ op'[c] \in {"init", "connect"}

\* C29 (re-initialization after teardown): when an h2gis_wrapper_init made
\* after h2gis_wrapper_shutdown has completed returns success (called
\* directly or by an auto-initializing wrapper), a worker thread is in the
\* task loop.
C29_ReinitAfterTeardown ==
    [][\A c \in Callers :
          (InitSucceeds(c) /\ h'.afterTerm[c])
          => \E w \in Workers : wpc'[w] \in LoopStates]_vars

\* the same for the init calls made before any shutdown has completed
FirstInitLeavesWorker ==
    [][\A c \in Callers :
          (InitSucceeds(c) /\ ~h'.afterTerm[c] /\ ~h.initFailed)
          => \E w \in Workers : wpc'[w] \in LoopStates]_vars

\* caller c, inside a shutdown called by h2gis_wrapper_release, signals the
\* worker or calls the join in this step
ReleaseTearsDown(c) ==
    /\ op[c] = "release"
    /\ \/ pc[c] = "sd_entry" /\ pc'[c] = "sd_join_call"
       \/ pc[c] = "sd_join_call" /\ pc'[c] # "sd_join_call"

\* C30 (a held reference protects the bridge): whenever a shutdown triggered
\* by a release signals the worker or joins it, the reference count is 0.
C30_HeldReferenceProtects ==
    [][\A c \in Callers : ReleaseTearsDown(c) => g_refcount = 0]_vars

\* a release goes on to h2gis_wrapper_shutdown only from a count of 1
ReleaseFromOne ==
    [][\A c \in Callers :
          (pc[c] = "idle" /\ pc'[c] = "sd_entry") => g_refcount' = 0]_vars

\* the state the sessions start from is one the bridge reaches
SessionStart ==
    /\ g_initialized /\ ~g_shutdown /\ g_h2gis_handle /\ fp_h2gis
    /\ g_worker_thread_handle = 1 /\ g_task_queue = <<>> /\ g_refcount = 0
    /\ g_init_mutex = 0 /\ wait_count = 0
    /\ \A c \in Callers : pc[c] = "idle" /\ jtarget[c] = 0 /\ mytask[c] = 0
    /\ op = [c \in Callers |-> IF c = 1 THEN "init" ELSE "none"]
    /\ wpc = [w \in Workers |-> IF w = 1 THEN "loop_head" ELSE "unborn"]
    /\ \A w \in Workers : wtask[w] = 0 /\ joiner[w] = 0
    /\ h.nSpawned = 1 /\ h.libRefs = 1 /\ h.isolates = 1 /\ h.initRet[1] = "ok"

\* caller c starts a wrapper call of the shape of wrap_h2gis_execute
ExecuteStarts(c) ==
    /\ pc[c] = "idle"
    /\ op'[c] = "execute"
    /\ h'.opsStarted = h.opsStarted + 1

\* C31 (submission outside Ready is rejected without blocking): a wrapper
\* call made while the bridge is not initialized, or whose entry point is
\* not resolved, returns in the step that starts it: it pushes no task,
\* makes no engine call and does not wait.
C31_RejectedOutsideReady ==
    [][\A c \in Callers :
          (ExecuteStarts(c) /\ ~(g_initialized /\ fp_h2gis))
          => /\ pc'[c] = "idle"
             /\ g_task_queue' = g_task_queue
             /\ h'.nextTask = h.nextTask
             /\ h'.execLog = h.execLog
             /\ mytask' = mytask]_vars

\* C31 witness: a wrapper call made on a bridge that is not initialized has
\* returned, and no task was ever pushed.
C31_Witness ==
    /\ \E c \in Callers : op[c] = "execute" /\ pc[c] = "idle"
    /\ ~g_initialized
    /\ h.nextTask = 1
    /\ h.execLog = <<>>

\* C32 (serial, exactly-once execution): at most one task is executing; the
\* task being executed was popped (it is no longer queued) and has not been
\* executed before; no task is executed more than once; and a task's promise
\* is set by its one execution and by nothing else.
C32_SerialExactlyOnce ==
    /\ Cardinality({w \in Workers : InEngine(w)}) <= 1
    /\ \A w \in Workers :
          InEngine(w) => /\ ExecCount(wtask[w]) = 0
                         /\ \A i \in DOMAIN g_task_queue :
                               g_task_queue[i] # wtask[w]
    /\ \A t \in 1 .. (h.nextTask - 1) :
          /\ ExecCount(t) <= 1
          /\ t \in h.fulfilled <=> ExecCount(t) = 1

\* C32 witness: two tasks have been executed, one after the other, and a
\* third one is being executed.
C32_Witness ==
    /\ Len(h.execLog) = 2
    /\ h.fulfilled = {1, 2}
    /\ \E w \in Workers : InEngine(w) /\ wtask[w] = 3

\* the positions inside h2gis_wrapper_init
InitPositions == {"init_lock", "init_poll", "init_after", "init_join_call",
                  "init_join_wait", "init_fail"}

\* the polling loop of h2gis_wrapper_init sleeps at most PollLimit times
PollsBounded == wait_count <= PollLimit

\* C33 (initialization is bounded): an h2gis_wrapper_init call polls at most
\* the fixed number of times and then returns, whatever the worker thread
\* does, also when its library load or isolate creation never ends.
C33_InitBounded ==
    (pc[1] \in InitPositions) ~> (pc[1] \notin InitPositions)

\* ---- properties of the layers ------------------------------------------------

\* the rows of the layer's current filtered result, in engine order
Expected == TableRows(engine.T, layer.filter)

\* s is an initial part of t
IsPrefix(s, t) == Len(s) <= Len(t) /\ \A i \in DOMAIN s : s[i] = t[i]

\* C13: batch pagination.  After a reset (or construction), with an engine
\* that prepares and executes the query and serves its T rows in batches of
\* at most B, the features GetNextFeature has returned are at every moment an
\* initial part of the engine's rows, in engine order (none skipped, none
\* twice), and once it has returned nullptr they are all T rows.
C13_BatchPagination ==
    (lh.viaReset /\ ~lh.faulty)
       => /\ IsPrefix(lh.out, Expected)
          /\ lh.ended => lh.out = Expected

\* C13 witness: three rows served as a batch of two and a batch of one have
\* been returned in order and the next call has returned nullptr.
C13_Witness ==
    /\ engine.T = 3 /\ engine.B = 2
    /\ lh.viaReset /\ ~lh.faulty /\ lh.ended
    /\ lh.out = <<1, 2, 3>>
    /\ Len(engine.bufs[1].rows) = 2

\* C14: lazy refill.  A GetNextFeature call issues at most one fetch, only
\* when m_iNextRowInBatch >= m_nBatchRows held when it started, and a call
\* that fetched and returned a row returned the first row of the batch it
\* fetched: the call that returns the last row of a batch does not fetch the
\* batch after it.
C14_LazyRefill ==
    lh.last = "GetNextFeature"
       => /\ lh.call.fetches <= 1
          /\ lh.call.fetches = 1 => lh.call.exhausted
          /\ (lh.call.fetches = 1 /\ lh.call.ret # 0)
                => /\ lh.call.newBuf
                   /\ layer.m_iNextRowInBatch = 1
                   /\ layer.m_pBatchBuffer = Len(engine.bufs)
                   /\ layer.m_columnValues.buf = layer.m_pBatchBuffer

\* C14 witness: a call has returned the last row of a batch of two without
\* fetching, although the engine has rows left.
C14_Witness ==
    /\ lh.last = "GetNextFeature"
    /\ lh.call.ret > 0 /\ lh.call.fetches = 0
    /\ layer.m_nBatchRows = 2 /\ layer.m_iNextRowInBatch = 2
    /\ engine.cursor.rows # <<>>

\* C15: one in-flight buffer.  At no moment, inside FetchNextBatch included,
\* has a layer more than one unreleased buffer, and the unreleased buffer is
\* the one m_pBatchBuffer holds.
C15_OneBufferInFlight ==
    /\ lh.maxLive <= 1
    /\ Cardinality(Live(engine)) <= 1
    /\ layer.alive => Live(engine) \subseteq {layer.m_pBatchBuffer}

\* C15 witness: a second batch is held and the first one has been released.
C15_Witness ==
    /\ Len(engine.bufs) >= 2
    /\ engine.bufs[1].frees = 1
    /\ layer.m_pBatchBuffer = 2
    /\ engine.bufs[2].frees = 0

\* C16: end-of-stream is terminal.  Once a fetch has returned no buffer or
\* zero rows, every GetNextFeature until the next reset returns nullptr and
\* no further fetch is issued.
C16_EndOfStreamTerminal ==
    lh.eos => /\ lh.eosFetch = 0
              /\ lh.last = "GetNextFeature" => lh.call.ret = 0

\* C17: buffer ownership.  No buffer handed out by h2gis_fetch_batch is ever
\* released twice; while the layer lives the only unreleased buffer is the
\* one it holds; once the layer is destroyed every buffer has been released.
C17_BufferOwnership ==
    \A b \in DOMAIN engine.bufs :
        /\ engine.bufs[b].frees <= 1
        /\ (layer.alive /\ engine.bufs[b].frees = 0) => layer.m_pBatchBuffer = b
        /\ ~layer.alive => engine.bufs[b].frees = 1

\* C17 witness: a layer that was handed three buffers or more over three
\* fetches or more has been destroyed.
C17_Witness ==
    /\ ~layer.alive
    /\ Len(engine.bufs) >= 3
    /\ lh.fetches >= 3

\* a SetNextByIndex call made after a reset that leaves the history's read
\* position as the reset set it was rejected (its index was negative): it
\* has changed nothing in the layer or the engine
NegativeIndexRejected ==
    [][(/\ lh'.last = "SetNextByIndex" /\ lh'.ops = lh.ops + 1
        /\ lh.viaReset /\ lh'.viaReset)
       => (layer' = layer /\ engine' = engine)]_vars

\* C25 (SetNextByIndex): after SetNextByIndex(n) has succeeded, whatever the
\* read position was before, the features GetNextFeature returns are rows
\* n, n+1, ... of the layer's current filtered result (an initial part of
\* them at every moment, all of them once it has returned nullptr).
C25_SetNextByIndex ==
    (~lh.viaReset /\ ~lh.faulty)
       => /\ IsPrefix(lh.out, Drop(Expected, lh.base))
          /\ lh.ended => lh.out = Drop(Expected, lh.base)

\* a call of ResetReading or of a filter setter on an OGRH2GISLayer
ResetCalled ==
    /\ layer.kind = "table"
    /\ lh'.ops = lh.ops + 1
    /\ lh'.last \in {"ResetReading", "SetFilter"}

\* ResetReading and the filter setters make no prepare and no execute: they
\* close the open handles and clear the cursor
ResetIsLazy ==
    [][ResetCalled
         => /\ Len(engine'.handles) = Len(engine.handles)
            /\ lh'.faults = lh.faults
            /\ lh'.prepSince = 0
            /\ layer'.m_nRS = 0 /\ layer'.m_hStmt = 0
            /\ layer'.m_nBatchRows = 0 /\ layer'.m_iNextRowInBatch = 0
            /\ layer'.m_iNextShapeId = 0
            /\ layer'.m_bResetPending]_vars

\* since the last reset of an OGRH2GISLayer only GetNextFeature was called,
\* at least once
ReadSinceReset ==
    /\ layer.kind = "table" /\ layer.alive
    /\ lh.viaReset
    /\ lh.last = "GetNextFeature"

Held == {layer.m_nRS, layer.m_hStmt} \ {0}

\* C35 (statement handle lifecycle): an OGRH2GISLayer that holds a result
\* set holds its statement; a handle the layer holds is open, a handle it
\* no longer holds was closed once, none is closed twice; and once the layer
\* is destroyed every handle it obtained has been closed exactly once.
C35_HandleLifecycle ==
    layer.kind = "table"
    => /\ layer.m_nRS # 0 => layer.m_hStmt # 0
       /\ layer.m_nRS # 0 => layer.m_nRS # layer.m_hStmt
       /\ \A hd \in DOMAIN engine.handles :
             engine.handles[hd].closes = (IF hd \in Held THEN 0 ELSE 1)
       /\ ~layer.alive => Held = {}

\* C35 witness: a layer that prepared three times (once with an execute that
\* failed) has been destroyed.
C35_Witness ==
    /\ layer.kind = "table" /\ ~layer.alive
    /\ Len(engine.handles) = 5
    /\ lh.faults = 1

\* a call of GetFeature
GetFeatureCalled == lh'.ops = lh.ops + 1 /\ lh'.last = "GetFeature"

RowDecoded == lh.last = "GetNextFeature" /\ lh.call.ret # 0

\* C38 (no read after release): a GetNextFeature that decoded a row read it
\* through column cursors that stood on a row of the buffer the layer holds,
\* a buffer not released, at the row m_iNextRowInBatch counted, below
\* m_nBatchRows, the number of rows of that buffer.
C38_NoReadAfterRelease ==
    RowDecoded
    => /\ lh.call.ret # -1
       /\ layer.m_pBatchBuffer # 0
       /\ layer.m_columnValues.buf = layer.m_pBatchBuffer
       /\ engine.bufs[layer.m_pBatchBuffer].frees = 0
       /\ layer.m_columnValues.row = layer.m_iNextRowInBatch
       /\ layer.m_iNextRowInBatch <= layer.m_nBatchRows
       /\ layer.m_nBatchRows = Len(engine.bufs[layer.m_pBatchBuffer].rows)

\* C38 witness: after a SetNextByIndex in the middle of a batch (the query
\* was prepared a second time) a row was decoded from the batch fetched
\* before it.
C38_Witness ==
    /\ RowDecoded
    /\ ~lh.viaReset
    /\ Len(engine.handles) = 4
    /\ Len(engine.bufs) = 1

\* ---- properties of the data source ---------------------------------------------

\* h2gis_connect handed back a handle other than 0 and -1
Succeeded(conn) == conn # 0 /\ conn # -1

\* the credentials the caller gave, by precedence
ExplicitUser ==
    IF ds.in.optUser # "" THEN ds.in.optUser
    ELSE IF ds.in.uriUser # "" THEN ds.in.uriUser ELSE ds.in.envUser
ExplicitPass ==
    IF ds.in.optPass # "" THEN ds.in.optPass
    ELSE IF ds.in.uriPass # "" THEN ds.in.uriPass ELSE ds.in.envPass

\* the order the attempts are to follow
FixedOrder ==
    LET defaults == <<[u |-> "", p |-> ""], [u |-> "sa", p |-> ""],
                      [u |-> "sa", p |-> "sa"]>> IN
    IF ExplicitUser # "" \/ ExplicitPass # ""
    THEN <<[u |-> ExplicitUser, p |-> ExplicitPass]>> \o defaults
    ELSE defaults

\* C39 (connection attempts): the credentials passed to h2gis_connect are, in
\* order, the explicit ones (when a user or a password was given) and then
\* ('',''), ('sa',''), ('sa','sa'); no attempt follows one that handed back a
\* handle other than 0 and -1; and an Open none of whose attempts did so has
\* made them all, returns FALSE and has no layer.
C39_ConnectionAttempts ==
    ds # <<>> /\ ds.tried # <<>>
    => /\ Len(ds.tried) <= Len(FixedOrder)
       /\ ds.tried = SubSeq(FixedOrder, 1, Len(ds.tried))
       /\ \A k \in 1 .. Len(ds.rets) - 1 : ~Succeeded(ds.rets[k])
       /\ Succeeded(ds.rets[Len(ds.rets)]) => ds.pc # "loop"
       /\ (ds.pc = "done" /\ \A k \in 1 .. Len(ds.rets) : ~Succeeded(ds.rets[k]))
          => /\ ds.tried = FixedOrder
             /\ ds.ret = "FALSE"
             /\ ds.m_nLayers = 0

\* C39 witness: explicit credentials were given, they and the first two
\* built-in ones were refused, ('sa','sa') was accepted and Open made layers.
C39_Witness ==
    /\ ds # <<>>
    /\ ds.pc = "done"
    /\ Len(ds.tried) = 4
    /\ ds.tried[1].u = "bob"
    /\ ds.rets[4] = 1
    /\ ds.ret = "TRUE"
    /\ ds.m_nLayers > 0

\* Open has returned FALSE after every candidate was refused
OpenExhausted ==
    /\ ds # <<>>
    /\ ds.pc = "done"
    /\ Len(ds.tried) = 3
    /\ ds.ret = "FALSE"

\* ---- properties of the row decode ---------------------------------------------

\* rows decoded so far; the row decoded last is row DecodedRows (counted from 1)
DecodedRows == dec.m_iNextRowInBatch
GeomCols  == {i \in DOMAIN batch.cols : batch.cols[i].type = H2GIS_TYPE_GEOM}
FixedCols == {i \in DOMAIN batch.cols : batch.cols[i].type \in FixedTypes}

\* C18 (geometry round-trip): when the row decoded last held, in a geometry
\* column, the extended encoding built from a canonical geometry G and an
\* identifier S > 0, the value the decode handed on is exactly G.
C18_GeometryRoundTrip ==
    \A i \in GeomCols :
        (DecodedRows >= 1 /\ batch.cols[i].vals[DecodedRows].kind = "extended")
        => /\ dec.poFeature[i].dest = "geometry"
           /\ dec.poFeature[i].val = batch.cols[i].vals[DecodedRows].G

\* a big-endian extended geometry with a payload has been decoded back
C18_Witness ==
    \E i \in GeomCols :
        /\ DecodedRows >= 1
        /\ LET v == batch.cols[i].vals[DecodedRows] IN
           /\ v.kind = "extended"
           /\ v.G[1] = 0
           /\ Len(v.G) = 5 + MaxPayload
           /\ Len(v.wire) = Len(v.G) + 4
           /\ dec.poFeature[i].val = v.G

\* bit 0x20000000 of the shape-type field of a value (bytes 2 .. 5, read in
\* the byte order its first byte announces)
SridFlagSet(w) ==
    /\ Len(w) >= 5
    /\ ((IF w[1] = 1 THEN w[5] ELSE w[2]) \div 32) % 2 = 1
\* the shape-type field with that bit cleared, in the same byte order
ClearedType(w) ==
    IF w[1] = 1 THEN <<w[2], w[3], w[4], w[5] - 32>>
    ELSE <<w[2] - 32, w[3], w[4], w[5]>>

\* what C19 says of a geometry value w decoded at offset p of column i
GeomStep(i, w, p) ==
    /\ dec.m_columnValues[i] = p + 4 + Len(w)
    /\ Len(w) > 0 =>
          IF ~SridFlagSet(w)
          THEN dec.poFeature[i].val = w
          ELSE /\ Len(dec.poFeature[i].val) = Len(w) - 4
               /\ dec.poFeature[i].val
                    = <<w[1]>> \o ClearedType(w) \o SubSeq(w, 10, Len(w))

\* C19 (geometry decode step): the decode of a geometry value of length L
\* completes; with bit 0x20000000 unset the L bytes are handed on unchanged,
\* with it set the value handed on is L - 4 bytes: order marker, shape type
\* with the bit cleared in the same byte order, the bytes from offset 9 on;
\* in both branches and for L = 0 the read pointer advances by 4 + L.
C19_GeometryDecodeStep ==
    /\ dec.running
    /\ \A i \in GeomCols :
          DecodedRows >= 1
          => GeomStep(i, batch.cols[i].vals[DecodedRows].wire, dec.prev[i])

\* the same step for the values that are long enough for what their flag
\* announces (every value the engine builds from a geometry)
GeomStepWellFormed ==
    \A i \in GeomCols :
        (/\ DecodedRows >= 1
         /\ dec.running
         /\ batch.cols[i].vals[DecodedRows].kind # "truncated")
        => GeomStep(i, batch.cols[i].vals[DecodedRows].wire, dec.prev[i])

\* the widths C20 states
StatedWidth(type) ==
    CASE type = H2GIS_TYPE_INT    -> 4
      [] type = H2GIS_TYPE_LONG   -> 8
      [] type = H2GIS_TYPE_FLOAT  -> 4
      [] type = H2GIS_TYPE_DOUBLE -> 8
      [] type = H2GIS_TYPE_BOOL   -> 1

\* C20 (fixed-width decode): row k of a fixed-width column is read at
\* k * w from the start of the column's data, w being 4, 8, 4, 8, 1 for
\* int32, int64, float32, float64, bool; the value decoded is the value
\* encoded, and the read pointer has advanced by w and nothing more.
C20_FixedWidthDecode ==
    \A i \in FixedCols :
        DecodedRows >= 1
        => LET w == StatedWidth(batch.cols[i].type) IN
           /\ dec.prev[i] = (DecodedRows - 1) * w
           /\ dec.m_columnValues[i] = DecodedRows * w
           /\ dec.poFeature[i].val = batch.cols[i].vals[DecodedRows]

\* the three rows of an int32 column and a float64 column have been decoded
C20_Witness ==
    /\ Len(batch.cols) = 2
    /\ batch.cols[1].type = H2GIS_TYPE_INT
    /\ batch.cols[2].type = H2GIS_TYPE_DOUBLE
    /\ DecodedRows = CodecRows
    /\ batch.cols[1].vals[DecodedRows] = (-2147483647) - 1
    /\ dec.poFeature[1].val = (-2147483647) - 1
    /\ dec.poFeature[2].val = batch.cols[2].vals[DecodedRows]
    /\ dec.m_columnValues = <<4 * CodecRows, 8 * CodecRows>>

\* the bytes a value takes in its column
ValueSize(c, r) ==
    IF c.type \in FixedTypes THEN StatedWidth(c.type)
    ELSE IF c.type = H2GIS_TYPE_GEOM THEN 4 + Len(c.vals[r].wire)
    ELSE 4 + Len(c.vals[r])

\* where row k (counted from 0) of a column starts in its data
RECURSIVE RowStart(_, _)
RowStart(c, k) == IF k = 0 THEN 0 ELSE RowStart(c, k - 1) + ValueSize(c, k)

\* C21 (row decode advances every column): a row decode that completes
\* leaves the read pointer of every column, whatever its type tag, past
\* exactly one more value: after k rows it is at the start of row k.
C21_RowDecodeAdvances ==
    dec.running =>
        \A i \in DOMAIN batch.cols :
            dec.m_columnValues[i] = RowStart(batch.cols[i], DecodedRows)

\* geometry fields of the layer's definition: the constructor adds one, for
\* m_osGeomCol
GeomFieldCount == IF batch.geomCol # 0 THEN 1 ELSE 0

\* the geometry of field k of the feature decoded last: what
\* SetGeomFieldDirectly(k, ..) was handed, if k is a field of the definition
FeatureGeometry(k) ==
    LET set == {i \in GeomCols : /\ dec.poFeature[i].slot = k
                                  /\ dec.poFeature[i].val # NoValue}
    IN IF k < GeomFieldCount /\ set # {}
       THEN dec.poFeature[CHOOSE i \in set : TRUE].val
       ELSE NoValue

\* the geometry of column i in row r, in canonical form
ColumnGeometry(i, r) ==
    IF batch.cols[i].vals[r].kind = "empty" THEN NoValue
    ELSE batch.cols[i].vals[r].G

\* C26 (one layer per geometry column): a feature read from the layer bound
\* to geometry column C of a table with several geometry columns carries as
\* its geometry the value of column C of that row.
C26_LayerPerGeometryColumn ==
    (/\ Cardinality(GeomCols) >= 2
     /\ dec.running /\ DecodedRows >= 1)
    => FeatureGeometry(0) = ColumnGeometry(batch.geomCol, DecodedRows)

\* the same for the layers of tables with one geometry column
OneGeometryColumn ==
    (/\ Cardinality(GeomCols) = 1 /\ batch.geomCol # 0
     /\ dec.running /\ DecodedRows >= 1
     /\ batch.cols[batch.geomCol].vals[DecodedRows].kind # "truncated")
    => FeatureGeometry(0) = ColumnGeometry(batch.geomCol, DecodedRows)

\* the attribute field the constructor made for column i: the field columns
\* before it
FieldOf(i) == Cardinality({j \in FieldColumns : j < i})

\* the column loop has handed the value of column i to SetField(slot, ..)
StoredAsField(i) ==
    /\ dec.poFeature[i].dest = "field"
    /\ batch.cols[i].type \in FieldTypes
    /\ dec.poFeature[i].slot < GetFieldCount

\* the batch is one a layer reads: with no FID column configured the query
\* is SELECT _ROWID_, * and column 1 is the 64-bit row id
LayerBatch == batch.fidCol = 0 => batch.cols[1].type = H2GIS_TYPE_LONG

\* C37 (field alignment): after a row decode, the value of a column that is
\* neither the FID column nor a geometry column is in the attribute field
\* made for that column, and no field holds the value of another column,
\* for every combination of column types.
C37_FieldAlignment ==
    (dec.running /\ DecodedRows >= 1 /\ LayerBatch)
    => \A i \in DOMAIN batch.cols :
          /\ StoredAsField(i)
                => i \in FieldColumns /\ dec.poFeature[i].slot = FieldOf(i)
          /\ (i \in FieldColumns /\ batch.cols[i].type \in FieldTypes)
                => StoredAsField(i)

\* the same for batches whose FID column is INT or LONG and whose other
\* columns all have a type the column loop decodes
FieldAlignmentTyped ==
    (/\ dec.running /\ DecodedRows >= 1 /\ LayerBatch
     /\ batch.fidCol # 0
           => batch.cols[batch.fidCol].type \in {H2GIS_TYPE_INT, H2GIS_TYPE_LONG}
     /\ \A i \in DOMAIN batch.cols :
           batch.cols[i].type \in FieldTypes \cup {H2GIS_TYPE_GEOM})
    => \A i \in DOMAIN batch.cols :
          /\ StoredAsField(i)
                => i \in FieldColumns /\ dec.poFeature[i].slot = FieldOf(i)
          /\ (i \in FieldColumns /\ batch.cols[i].type \in FieldTypes)
                => StoredAsField(i)

\* ---- properties of the buffer parse ---------------------------------------------

\* the well-formed buffers are parsed as they were built: FetchNextBatch finds
\* every column's tag and sets its read pointer to the first byte of its data
ParseWellFormed ==
    (dec.op = "FetchNextBatch" /\ dec.damage = "none")
    => /\ dec.out.ret /\ dec.out.inside /\ ~dec.out.thrown
       /\ dec.out.m_nBatchRows = batch.rowCount
       /\ Len(dec.out.m_columnValues) = Len(batch.cols)
       /\ \A i \in DOMAIN batch.cols :
            /\ dec.out.m_columnTypes[i] = batch.cols[i].type
            /\ Bytes(FetchBatch(batch), dec.out.m_columnValues[i],
                     Len(batch.cols[i].data), 0) = batch.cols[i].data

\* the column of the lookup's buffer that holds column i of the table
RECURSIVE IndexIn(_, _)
IndexIn(seq, x) == IF Head(seq) = x THEN 1 ELSE 1 + IndexIn(Tail(seq), x)
LookupCol(i) == IndexIn(Ascending(Selected(batch)), i)

\* a lookup that found its row in a well-formed buffer
Found == dec.op = "GetFeature" /\ dec.damage = "none" /\ dec.row >= 1

\* a lookup of a row of a well-formed buffer stays inside the buffer and
\* hands on the int32, int64, float64 and bool fields as they were encoded
LookupWellFormed ==
    Found
    => /\ dec.out.ret = "feature" /\ dec.out.inside /\ ~dec.out.thrown
       /\ \A i \in Selected(batch) :
            (/\ batch.cols[i].type \in FixedTypes \ {H2GIS_TYPE_FLOAT}
             /\ i # batch.fidCol)
            => dec.out.cols[LookupCol(i)]
                 = [kind |-> "field", val |-> batch.cols[i].vals[dec.row]]

\* C22 (zero-row lookup): when the key matches no row and the engine hands
\* back a well-formed buffer with rowCount = 0, GetFeature returns nullptr
\* and has decoded no column (there is no feature, zero-valued or other).
C22_ZeroRowLookup ==
    (dec.op = "GetFeature" /\ dec.damage = "none" /\ dec.row = 0)
    => /\ dec.out.ret = "nullptr"
       /\ dec.out.cols = <<>>
       /\ dec.out.inside
       /\ ~dec.out.thrown

\* a lookup in a table with a geometry column and a second column has
\* matched no row
C22_Witness ==
    /\ dec.op = "GetFeature" /\ dec.damage = "none" /\ dec.row = 0
    /\ Len(batch.cols) = 2
    /\ batch.cols[1].type = H2GIS_TYPE_GEOM
    /\ dec.out.ret = "nullptr"

\* C23 (bounds-checked decode): whatever buffer FetchNextBatch or GetFeature
\* is handed, no byte is read outside it and no exception leaves the parse.
C23_BoundsCheckedDecode ==
    dec.op # "none" => dec.out.inside /\ ~dec.out.thrown

\* C24 (GetFeature geometry): for every row and geometry column, the bytes
\* GetFeature hands to the geometry parser are those GetNextFeature hands
\* over for that value (the canonical bytes).
C24_GetFeatureGeometry ==
    Found
    => \A i \in Selected(batch) :
         (/\ batch.cols[i].type = H2GIS_TYPE_GEOM
          /\ i # batch.fidCol
          /\ batch.cols[i].vals[dec.row].kind \in {"canonical", "extended"})
         => dec.out.cols[LookupCol(i)].val
              = DecodeGeom(EncVar(batch.cols[i].vals[dec.row].wire), 0, 0,
                           "crash").val

\* the same for the values sent in canonical form
GetFeatureGeometryCanonical ==
    Found
    => \A i \in Selected(batch) :
         (/\ batch.cols[i].type = H2GIS_TYPE_GEOM
          /\ i # batch.fidCol
          /\ batch.cols[i].vals[dec.row].kind = "canonical")
         => dec.out.cols[LookupCol(i)]
              = [kind |-> "geometry", val |-> batch.cols[i].vals[dec.row].G]

====
